---------------------------- MODULE Spec2Model ----------------------------
(***************************************************************************)
(* Model of the private-key validator of src/lib/bitcoin-validator.ts, of  *)
(* the derivation engine of src/lib/key-derivation-engine.ts, of the       *)
(* run_derivation_batch tool of src/lib/agent-tools.ts and of the search   *)
(* loop, the tool execution and the tested-keys set of the hook of         *)
(* src/hooks/use-agent-system.ts.                                          *)
(*                                                                         *)
(* Strings are sequences of one-character strings, byte arrays are         *)
(* sequences of 0..255, and a JavaScript BigInt that can exceed the        *)
(* machine integers of the model checker (the Base58 accumulator) is a     *)
(* sequence of hexadecimal digits, most significant first, <<>> being 0.   *)
(*                                                                         *)
(* The widths of the program are scaled down so that the arithmetic can    *)
(* be enumerated: a private key is KEY_BYTES = 1 byte wide (source: 32),   *)
(* the Base58Check checksum CHECKSUM_BYTES = 2 bytes (source: 4), and the  *)
(* curve is y^2 = x^3 + 7 over the prime field of 211 elements, whose      *)
(* group has prime order 199 (source: secp256k1).  With these widths a     *)
(* first byte 0xA8 plays the part of 0x80: every uncompressed WIF          *)
(* payload encodes to WIF_LEN = 6 characters starting with 5H, 5J or 5K    *)
(* (source: 51) and every compressed one to WIF_COMPRESSED_LEN = 7         *)
(* characters starting with K or L (source: 52).  SHA-256 and RIPEMD-160   *)
(* come from the crypto-js library; they are modelled by fixed mixing      *)
(* functions of SHA256_BYTES and RIPEMD160_BYTES bytes.                    *)
(***************************************************************************)
EXTENDS Integers, Sequences, FiniteSets, TLC

VARIABLES
    key,        \* validator: the candidate string handed to the validator
    detected,   \* validator: <<>> or <<detectKeyFormat(key)>>
    out,        \* validator: <<>> or <<outcome of validatePrivateKey(key)>>
    bytes,      \* codec: the byte array handed to base58Encode
    encoded,    \* codec: <<>> or <<base58Encode(bytes)>>
    decoded,    \* codec: <<>> or <<outcome of base58Decode(encoded)>>
    parsed,     \* codec: <<>> or <<validateWIFChecksum(encoded)>>
    results,    \* engine: this.results, the list of accepted results
    iteration,  \* engine: this.iteration, the sequence counter
    shouldStop, \* engine: this.shouldStop, the stop flag
    onProgress, \* engine: TRUE when a progress observer is installed
    log,        \* engine: what the consumer and the observer saw, in order:
                \*         generators invoked, results received, stop()
                \*         called, the observer notified
    gens,       \* engine: the generator objects the consumer holds
    stats,      \* engine: <<>> or <<the last value of getStats()>>
    request,    \* batch tool: <<>> or <<the parameters of the call>>
    response,   \* batch tool: <<>> or <<the ToolResult>>
    candidates, \* engine: the candidate keys a generator loop hands to
                \*         addResult one after the other
    operands,   \* curve arithmetic: the arguments of the call
    outcome,    \* curve arithmetic: <<>> or <<what the call returned>>
    isRunning,      \* hook: state.isRunning
    shouldContinue, \* hook: shouldContinueRef.current
    continuousMode, \* hook: the continuousMode state
    puzzleSolved,   \* hook: the puzzleSolved state
    loops,          \* hook: the activations of runAutonomousLoop, each at
                    \*       an await of its body or ended
    toolLock,       \* hook: toolExecutionLockRef.current
    streams,        \* hook: the activations of streamAgentResponse, each
                    \*       at an await or returned
    testedKeys,     \* hook: testedKeysRef.current, in insertion order
    foundKeys,      \* hook: the foundKeys state, newest first
    lengthSeen,     \* hook: foundKeys.length at the last run of the
                    \*       clean-up effect
    keyLog          \* hook: history of the calls of validateAndAddKey and
                    \*       of the clears of the tested-keys set

validatorVars == <<key, detected, out>>
codecVars == <<bytes, encoded, decoded, parsed>>
engineVars == <<results, iteration, shouldStop, onProgress, log, gens, stats>>
toolVars == <<request, response>>
curveVars == <<operands, outcome>>
loopVars == <<isRunning, shouldContinue, continuousMode, puzzleSolved, loops>>
streamVars == <<toolLock, streams>>
keyVars == <<testedKeys, foundKeys, lengthSeen, keyLog>>
hookVars == <<loopVars, streamVars, keyVars>>
extraVars == <<candidates, curveVars, hookVars>>

vars == <<validatorVars, codecVars, engineVars, toolVars, extraVars>>

ValidatorIdle == key = <<>> /\ detected = <<>> /\ out = <<>>

CodecIdle == bytes = <<>> /\ encoded = <<>> /\ decoded = <<>> /\ parsed = <<>>

EngineIdle ==
    /\ results = <<>>
    /\ iteration = 0
    /\ shouldStop = FALSE
    /\ onProgress = FALSE
    /\ log = <<>>
    /\ gens = <<>>
    /\ stats = <<>>

ToolIdle == request = <<>> /\ response = <<>>

CurveIdle == operands = <<>> /\ outcome = <<>>

HookIdle ==
    /\ isRunning = FALSE
    /\ shouldContinue = TRUE
    /\ continuousMode = TRUE
    /\ puzzleSolved = FALSE
    /\ loops = <<>>
    /\ toolLock = FALSE
    /\ streams = <<>>
    /\ testedKeys = <<>>
    /\ foundKeys = <<>>
    /\ lengthSeen = 0
    /\ keyLog = <<>>

ExtraIdle == candidates = <<>> /\ CurveIdle /\ HookIdle

-----------------------------------------------------------------------------
(* Scaled widths of the program.                                           *)

KEY_BYTES == 1
CHECKSUM_BYTES == 2
SHA256_BYTES == 3
RIPEMD160_BYTES == 2
HEX_KEY_LEN == 2 * KEY_BYTES
WIF_LEN == 6
WIF_COMPRESSED_LEN == 7
MIN_DECODED_LEN == 1 + KEY_BYTES + CHECKSUM_BYTES

-----------------------------------------------------------------------------
(* Characters and strings.                                                 *)

BASE58_ALPHABET ==
    << "1","2","3","4","5","6","7","8","9",
       "A","B","C","D","E","F","G","H","J","K","L","M","N","P","Q","R","S",
       "T","U","V","W","X","Y","Z",
       "a","b","c","d","e","f","g","h","i","j","k","m","n","o","p","q","r",
       "s","t","u","v","w","x","y","z" >>

HexChars == << "0","1","2","3","4","5","6","7","8","9","a","b","c","d","e","f" >>

WhiteSpace == { " ", "\t", "\n" }

\* String.prototype.indexOf for a one-character needle: 0-based, -1 if absent
indexOf(alphabet, c) ==
    IF \E i \in DOMAIN alphabet : alphabet[i] = c
    THEN (CHOOSE i \in DOMAIN alphabet : alphabet[i] = c) - 1
    ELSE -1

UpperCase ==
    << "A","B","C","D","E","F","G","H","I","J","K","L","M",
       "N","O","P","Q","R","S","T","U","V","W","X","Y","Z" >>

LowerCase ==
    << "a","b","c","d","e","f","g","h","i","j","k","l","m",
       "n","o","p","q","r","s","t","u","v","w","x","y","z" >>

\* String.prototype.toLowerCase
toLowerCase(s) ==
    [ i \in DOMAIN s |->
        IF indexOf(UpperCase, s[i]) >= 0
        THEN LowerCase[indexOf(UpperCase, s[i]) + 1]
        ELSE s[i] ]

RECURSIVE trimStart(_)
trimStart(s) ==
    IF s # <<>> /\ s[1] \in WhiteSpace THEN trimStart(Tail(s)) ELSE s

RECURSIVE trimEnd(_)
trimEnd(s) ==
    IF s # <<>> /\ s[Len(s)] \in WhiteSpace
    THEN trimEnd(SubSeq(s, 1, Len(s) - 1))
    ELSE s

\* String.prototype.trim
trim(s) == trimEnd(trimStart(s))

\* String.prototype.padStart(n, "0")
RECURSIVE padStart(_, _)
padStart(s, n) == IF Len(s) >= n THEN s ELSE padStart(<<"0">> \o s, n)

\* String.prototype.substring(0, n)
substring0(s, n) == SubSeq(s, 1, IF n < Len(s) THEN n ELSE Len(s))

-----------------------------------------------------------------------------
(* BigInt values that outgrow the model checker's integers: sequences of   *)
(* hexadecimal digits 0..15, most significant first, without leading zero. *)

RECURSIVE StripZeros(_)
StripZeros(d) == IF d # <<>> /\ d[1] = 0 THEN StripZeros(Tail(d)) ELSE d

RECURSIVE NatToDigits(_)
NatToDigits(n) == IF n = 0 THEN <<>> ELSE NatToDigits(n \div 16) \o <<n % 16>>

RECURSIVE DigitsToNat(_)
DigitsToNat(d) ==
    IF d = <<>> THEN 0 ELSE 16 * DigitsToNat(SubSeq(d, 1, Len(d) - 1)) + d[Len(d)]

RECURSIVE MulAddFrom(_, _, _, _)
MulAddFrom(d, i, m, carry) ==
    IF i = 0
    THEN NatToDigits(carry)
    ELSE LET t == d[i] * m + carry
         IN  MulAddFrom(d, i - 1, m, t \div 16) \o <<t % 16>>

\* value * m + a on BigInt
BigMulAdd(value, m, a) == StripZeros(MulAddFrom(value, Len(value), m, a))

RECURSIVE DivFrom(_, _, _, _)
DivFrom(d, i, m, rem) ==
    IF i > Len(d)
    THEN << <<>>, rem >>
    ELSE LET cur  == rem * 16 + d[i]
             rest == DivFrom(d, i + 1, m, cur % m)
         IN  << <<cur \div m>> \o rest[1], rest[2] >>

\* value / m and value % m on non-negative BigInt
BigDiv(value, m) == StripZeros(DivFrom(value, 1, m, 0)[1])
BigMod(value, m) == DivFrom(value, 1, m, 0)[2]

\* BigInt.prototype.toString(16)
BigToString16(value) ==
    IF value = <<>> THEN <<"0">> ELSE [ i \in DOMAIN value |-> HexChars[value[i] + 1] ]

\* Number.parseInt(pair, 16) on two hexadecimal characters
parseHexPair(c1, c2) ==
    16 * indexOf(HexChars, toLowerCase(<<c1>>)[1]) + indexOf(HexChars, toLowerCase(<<c2>>)[1])

\* Number.parseInt(c, 16) on one hexadecimal character
parseHexChar(c) == indexOf(HexChars, toLowerCase(<<c>>)[1])

\* hexToBytes, and the same loop at the end of base58Decode: two characters
\* a byte, a last single character being a byte of its own
hexToBytes(hex) ==
    [ i \in 1 .. ((Len(hex) + 1) \div 2) |->
        IF 2 * i <= Len(hex)
        THEN parseHexPair(hex[2 * i - 1], hex[2 * i])
        ELSE parseHexChar(hex[2 * i - 1]) ]

\* Number.prototype.toString(16).padStart(2, "0") of one byte
byteToHex(b) == << HexChars[(b \div 16) + 1], HexChars[(b % 16) + 1] >>

RECURSIVE bytesToHex(_)
bytesToHex(bs) ==
    IF bs = <<>> THEN <<>> ELSE byteToHex(bs[1]) \o bytesToHex(Tail(bs))

-----------------------------------------------------------------------------
(* Base58.                                                                 *)

Thrown(message) == [ ok |-> FALSE, message |-> message ]
Returned(value) == [ ok |-> TRUE, value |-> value ]

\* the accumulation loop of base58Decode: throws on a character outside
\* the alphabet
RECURSIVE base58Value(_, _, _)
base58Value(str, i, value) ==
    IF i > Len(str)
    THEN Returned(value)
    ELSE LET index == indexOf(BASE58_ALPHABET, str[i])
         IN  IF index = -1
             THEN Thrown("Invalid Base58 character")
             ELSE base58Value(str, i + 1, BigMulAdd(value, 58, index))

\* the number of leading elements of s equal to c
RECURSIVE leadingCount(_, _)
leadingCount(s, c) ==
    IF s # <<>> /\ s[1] = c THEN 1 + leadingCount(Tail(s), c) ELSE 0

base58Decode(str) ==
    LET even(hex) == IF Len(hex) % 2 = 1 THEN <<"0">> \o hex ELSE hex
        zeros == [ i \in 1 .. leadingCount(str, "1") |-> 0 ]
        convert(acc) ==
            IF ~acc.ok
            THEN acc
            ELSE Returned(zeros \o hexToBytes(even(BigToString16(acc.value))))
    IN  convert(base58Value(str, 1, <<>>))

RECURSIVE bytesToBig(_, _)
bytesToBig(bs, value) ==
    IF bs = <<>> THEN value ELSE bytesToBig(Tail(bs), BigMulAdd(value, 256, bs[1]))

\* the division loop of base58Encode
RECURSIVE base58Digits(_, _)
base58Digits(value, result) ==
    IF value = <<>>
    THEN result
    ELSE base58Digits(BigDiv(value, 58),
                      <<BASE58_ALPHABET[BigMod(value, 58) + 1]>> \o result)

base58Encode(bs) ==
    LET digits == base58Digits(bytesToBig(bs, <<>>), <<>>)
        result == [ i \in 1 .. leadingCount(bs, 0) |-> "1" ] \o digits
    IN  IF result = <<>> THEN <<"1">> ELSE result

-----------------------------------------------------------------------------
(* Hashes of the crypto-js library, as fixed mixing functions.             *)

RECURSIVE mix(_, _, _, _)
mix(bs, h, mult, modulus) ==
    IF bs = <<>>
    THEN h
    ELSE mix(Tail(bs), (h * mult + bs[1] + 1) % modulus, mult, modulus)

RECURSIVE natToBytes(_, _)
natToBytes(n, width) ==
    IF width = 0 THEN <<>> ELSE natToBytes(n \div 256, width - 1) \o <<n % 256>>

\* CryptoJS.SHA256 on a byte array
SHA256(bs) ==
    natToBytes(mix(bs \o <<Len(bs)>>, 6949350, 33, 16777216), SHA256_BYTES)

\* CryptoJS.RIPEMD160 on a byte array
RIPEMD160(bs) ==
    natToBytes(mix(bs \o <<Len(bs)>>, 26437, 31, 65536), RIPEMD160_BYTES)

doubleSha256(data) == bytesToHex(SHA256(SHA256(hexToBytes(data))))

hash160(data) == bytesToHex(RIPEMD160(SHA256(hexToBytes(data))))

-----------------------------------------------------------------------------
(* Curve arithmetic.  A point is <<x, y>>; null, the point at infinity,    *)
(* is <<>>.                                                                *)

SECP256K1_P == 211
SECP256K1_N == 199
SECP256K1_Gx == 3
SECP256K1_Gy == 33

NullPoint == <<>>

\* the % of JavaScript: the sign of the result is the sign of the dividend
jsRem(a, m) == IF a >= 0 THEN a % m ELSE 0 - ((0 - a) % m)

\* the / of BigInt: truncation toward zero
jsDiv(a, b) ==
    IF (a >= 0) = (b >= 0)
    THEN (IF a >= 0 THEN a ELSE 0 - a) \div (IF b >= 0 THEN b ELSE 0 - b)
    ELSE 0 - ((IF a >= 0 THEN a ELSE 0 - a) \div (IF b >= 0 THEN b ELSE 0 - b))

mod(a, m) ==
    LET result == jsRem(a, m)
    IN  IF result >= 0 THEN result ELSE result + m

RECURSIVE modInverseLoop(_, _, _, _)
modInverseLoop(old_r, r, old_s, s) ==
    IF r = 0
    THEN old_s
    ELSE LET quotient == jsDiv(old_r, r)
         IN  modInverseLoop(r, old_r - quotient * r, s, old_s - quotient * s)

modInverse(a, m) == mod(modInverseLoop(a, m, 1, 0), m)

\* pointAdd without the test for two points that are mirror images
pointAdd_NoMirrorTest(p1, p2) ==
    LET P == SECP256K1_P
        withY(s, x) == <<x, mod(s * (p1[1] - x) - p1[2], P)>>
        double(s) == withY(s, mod(s * s - 2 * p1[1], P))
        add(s) == withY(s, mod(s * s - p1[1] - p2[1], P))
    IN  IF p1 = NullPoint THEN p2
        ELSE IF p2 = NullPoint THEN p1
        ELSE IF p1[1] = p2[1]
        THEN double(mod(3 * p1[1] * p1[1] * modInverse(2 * p1[2], P), P))
        ELSE add(mod((p2[2] - p1[2]) * modInverse(mod(p2[1] - p1[1], P), P), P))

pointAdd(p1, p2) ==
    LET P == SECP256K1_P
        withY(s, x) == <<x, mod(s * (p1[1] - x) - p1[2], P)>>
        double(s) == withY(s, mod(s * s - 2 * p1[1], P))
        add(s) == withY(s, mod(s * s - p1[1] - p2[1], P))
    IN  IF p1 = NullPoint THEN p2
        ELSE IF p2 = NullPoint THEN p1
        ELSE IF p1[1] = p2[1]
        THEN IF mod(p1[2] + p2[2], P) = 0
             THEN NullPoint
             ELSE double(mod(3 * p1[1] * p1[1] * modInverse(2 * p1[2], P), P))
        ELSE add(mod((p2[2] - p1[2]) * modInverse(mod(p2[1] - p1[1], P), P), P))

\* the loop of pointMultiply doubling the addend only after an addition
RECURSIVE pointMultiplyLoop_DoublesOnAdd(_, _, _)
pointMultiplyLoop_DoublesOnAdd(k, result, addend) ==
    IF k > 0
    THEN pointMultiplyLoop_DoublesOnAdd(k \div 2,
             IF k % 2 = 1 THEN pointAdd(result, addend) ELSE result,
             IF k % 2 = 1 THEN pointAdd(addend, addend) ELSE addend)
    ELSE result

RECURSIVE pointMultiplyLoop(_, _, _)
pointMultiplyLoop(k, result, addend) ==
    IF k > 0
    THEN pointMultiplyLoop(k \div 2,
                           IF k % 2 = 1 THEN pointAdd(result, addend) ELSE result,
                           pointAdd(addend, addend))
    ELSE result

pointMultiply(k, p) == pointMultiplyLoop(k, NullPoint, p)

\* BigInt("0x" + hex): surrounding white space of the whole literal is
\* dropped, anything else that is not a hexadecimal digit is a SyntaxError
parseBigIntHex(hex) ==
    LET t == trimEnd(hex)
    IN  IF t = <<>> \/ \E i \in DOMAIN t : parseHexChar(t[i]) = -1
        THEN Thrown("Cannot convert to a BigInt")
        ELSE Returned(DigitsToNat([ i \in DOMAIN t |-> parseHexChar(t[i]) ]))

\* n.toString(16).padStart(64, "0"), one coordinate being KEY_BYTES wide
bigintToHex32(n) == padStart(BigToString16(NatToDigits(n)), 2 * KEY_BYTES)

\* (Each intermediate value is the parameter of a local operator, so that
\* its defining expression occurs once.)
privateKeyToPublicKey(privateKeyHex, compressed) ==
    LET G == <<SECP256K1_Gx, SECP256K1_Gy>>
        serialize(xHex, yHex, yEven) ==
            IF compressed
            THEN (IF yEven THEN <<"0", "2">> ELSE <<"0", "3">>) \o xHex
            ELSE <<"0", "4">> \o xHex \o yHex
        encode(publicPoint) ==
            IF publicPoint = NullPoint
            THEN Thrown("Invalid private key - results in point at infinity")
            ELSE Returned(serialize(bigintToHex32(publicPoint[1]),
                                    bigintToHex32(publicPoint[2]),
                                    publicPoint[2] % 2 = 0))
        multiply(privateKey) ==
            IF ~privateKey.ok
            THEN privateKey
            ELSE encode(pointMultiply(privateKey.value, G))
    IN  multiply(parseBigIntHex(privateKeyHex))

publicKeyToAddress(publicKeyHex) ==
    LET withChecksum(versionedHash) ==
            versionedHash
            \o substring0(doubleSha256(versionedHash), 2 * CHECKSUM_BYTES)
    IN  base58Encode(hexToBytes(withChecksum(<<"0", "0">> \o hash160(publicKeyHex))))

-----------------------------------------------------------------------------
(* WIF parsing, format detection and the validator.                        *)

InvalidWIF == [ valid |-> FALSE, privateKeyHex |-> <<>>, compressed |-> FALSE ]

\* validateWIFChecksum without the comparison of the two checksums
validateWIFChecksum_NoVerify(wif) ==
    LET extract(payload) ==
            [ valid |-> TRUE,
              privateKeyHex |-> bytesToHex(SubSeq(payload, 2, KEY_BYTES + 1)),
              compressed |-> /\ Len(payload) = KEY_BYTES + 2
                             /\ payload[KEY_BYTES + 2] = 1 ]
        split(dec) ==
            IF ~dec.ok
            THEN InvalidWIF
            ELSE IF Len(dec.value) < MIN_DECODED_LEN
            THEN InvalidWIF
            ELSE extract(SubSeq(dec.value, 1, Len(dec.value) - CHECKSUM_BYTES))
    IN  split(base58Decode(wif))

validateWIFChecksum(wif) ==
    LET extract(payload) ==
            [ valid |-> TRUE,
              privateKeyHex |-> bytesToHex(SubSeq(payload, 2, KEY_BYTES + 1)),
              compressed |-> /\ Len(payload) = KEY_BYTES + 2
                             /\ payload[KEY_BYTES + 2] = 1 ]
        verify(payload, checksum) ==
            IF substring0(doubleSha256(bytesToHex(payload)), 2 * CHECKSUM_BYTES)
                   # bytesToHex(checksum)
            THEN InvalidWIF
            ELSE extract(payload)
        split(dec) ==
            IF ~dec.ok
            THEN InvalidWIF
            ELSE IF Len(dec.value) < MIN_DECODED_LEN
            THEN InvalidWIF
            ELSE verify(SubSeq(dec.value, 1, Len(dec.value) - CHECKSUM_BYTES),
                        SubSeq(dec.value, Len(dec.value) - CHECKSUM_BYTES + 1,
                               Len(dec.value)))
    IN  split(base58Decode(wif))

\* the character class [1-9A-HJ-NP-Za-km-z]
Base58Class ==
    { "1","2","3","4","5","6","7","8","9",
      "A","B","C","D","E","F","G","H",
      "J","K","L","M","N",
      "P","Q","R","S","T","U","V","W","X","Y","Z",
      "a","b","c","d","e","f","g","h","i","j","k",
      "m","n","o","p","q","r","s","t","u","v","w","x","y","z" }

\* the character class [0-9a-fA-F]
HexClass ==
    { "0","1","2","3","4","5","6","7","8","9",
      "a","b","c","d","e","f","A","B","C","D","E","F" }

\* test of the patterns without their closing $
test_Unanchored(classes, s) ==
    /\ Len(s) >= Len(classes)
    /\ \A i \in DOMAIN classes : s[i] \in classes[i]

\* RegExp.prototype.test of an anchored pattern ^c1 c2 ... cn$ of
\* character classes
test(classes, s) ==
    /\ Len(s) = Len(classes)
    /\ \A i \in DOMAIN s : s[i] \in classes[i]

\* n copies of one character class
repeat(class, n) == [ i \in 1 .. n |-> class ]

WifPattern == << {"5"}, {"H", "J", "K"} >> \o repeat(Base58Class, WIF_LEN - 2)
WifCompressedPattern == << {"K", "L"} >> \o repeat(Base58Class, WIF_COMPRESSED_LEN - 1)
HexPattern == repeat(HexClass, HEX_KEY_LEN)

\* detectKeyFormat on the string as given, without trim()
detectKeyFormat_NoTrim(k) ==
    IF test(WifPattern, k) THEN "WIF"
    ELSE IF test(WifCompressedPattern, k) THEN "WIF-compressed"
    ELSE IF test(HexPattern, k) THEN "hex"
    ELSE "unknown"

detectKeyFormat(k) ==
    LET trimmed == trim(k)
    IN  IF test(WifPattern, trimmed) THEN "WIF"
        ELSE IF test(WifCompressedPattern, trimmed) THEN "WIF-compressed"
        ELSE IF test(HexPattern, trimmed) THEN "hex"
        ELSE "unknown"

\* the address of the compressed key 0x2a at the scaled widths
GSMG_PUZZLE_ADDRESS == << "1", "5", "Z", "L", "c", "5", "c" >>

ErrFormat ==
    "Unrecognized key format. Expected WIF (starts with 5, K, or L) or 64-char hex."
ErrRange == "Private key out of valid range for secp256k1"
ErrChecksum == "Invalid WIF checksum - key may be corrupted or mistyped"

Invalid(format, error) ==
    [ isValid |-> FALSE, format |-> format, matchesPuzzle |-> FALSE,
      checksum |-> FALSE, error |-> error ]

\* deriveAndCompare without the comparison with the target address
deriveAndCompare_NeverMatches(format, privateKeyHex, compressed) ==
    LET compare(address) ==
            [ isValid |-> TRUE, format |-> format, address |-> address,
              matchesPuzzle |-> FALSE, checksum |-> TRUE ]
        derive(publicKey) ==
            IF ~publicKey.ok
            THEN publicKey
            ELSE Returned(compare(publicKeyToAddress(publicKey.value)))
    IN  derive(privateKeyToPublicKey(privateKeyHex, compressed))

\* lines 346-360: derivation of the address and comparison with the target
deriveAndCompare(format, privateKeyHex, compressed) ==
    LET compare(address) ==
            [ isValid |-> TRUE, format |-> format, address |-> address,
              matchesPuzzle |-> (address = GSMG_PUZZLE_ADDRESS), checksum |-> TRUE ]
        derive(publicKey) ==
            IF ~publicKey.ok
            THEN publicKey
            ELSE Returned(compare(publicKeyToAddress(publicKey.value)))
    IN  derive(privateKeyToPublicKey(privateKeyHex, compressed))

\* validateBody with the upper end of the range test off by one (> for >=)
validateBody_RangeOffByOne(k, format) ==
    LET hexRange(privateKeyHex, keyBigInt) ==
            IF ~keyBigInt.ok
            THEN keyBigInt
            ELSE IF keyBigInt.value <= 0 \/ keyBigInt.value > SECP256K1_N
            THEN Returned(Invalid(format, ErrRange))
            ELSE deriveAndCompare(format, privateKeyHex, TRUE)
        wif(wifResult) ==
            IF ~wifResult.valid
            THEN Returned(Invalid(format, ErrChecksum))
            ELSE deriveAndCompare(format, wifResult.privateKeyHex, wifResult.compressed)
    IN  IF format = "hex"
        THEN hexRange(toLowerCase(k), parseBigIntHex(toLowerCase(k)))
        ELSE wif(validateWIFChecksum(k))

\* the body of the try block, lines 309-360
validateBody(k, format) ==
    LET derive(privateKeyHex, compressed) ==
            deriveAndCompare(format, privateKeyHex, compressed)
        hexRange(privateKeyHex, keyBigInt) ==
            IF ~keyBigInt.ok
            THEN keyBigInt
            ELSE IF keyBigInt.value <= 0 \/ keyBigInt.value >= SECP256K1_N
            THEN Returned(Invalid(format, ErrRange))
            ELSE derive(privateKeyHex, TRUE)
        wif(wifResult) ==
            IF ~wifResult.valid
            THEN Returned(Invalid(format, ErrChecksum))
            ELSE derive(wifResult.privateKeyHex, wifResult.compressed)
    IN  IF format = "hex"
        THEN hexRange(toLowerCase(k), parseBigIntHex(toLowerCase(k)))
        ELSE wif(validateWIFChecksum(k))

\* validatePrivateKey without its try/catch: an exception leaves the call
validatePrivateKey_NoCatch(k) ==
    LET propagate(r) == IF r.ok THEN r.value ELSE [ thrown |-> r.message ]
        try(format) ==
            IF format = "unknown"
            THEN Invalid("unknown", ErrFormat)
            ELSE propagate(validateBody(k, format))
    IN  try(detectKeyFormat(k))

\* The outcome of a call: the record returned, or [thrown |-> message] for
\* an exception that leaves the function.
validatePrivateKey(k) ==
    LET catch(format, r) ==
            IF r.ok
            THEN r.value
            ELSE Invalid(format, "Validation error: " \o r.message)
        try(format) ==
            IF format = "unknown"
            THEN Invalid("unknown", ErrFormat)
            ELSE catch(format, validateBody(k, format))
    IN  try(detectKeyFormat(k))

-----------------------------------------------------------------------------
(* Inputs.                                                                 *)

MaxShapeLen == 8
MaxBytesLen == 3
MaxPad == 1

\* the first byte of the payloads: with 0xA8 every payload takes a WIF shape
\* at the scaled widths, with its neighbours some do and some do not
WifVersions == { 167, 168, 169 }

\* Base58Check: payload followed by the first CHECKSUM_BYTES bytes of its
\* double SHA-256
checksumOf(payload) ==
    hexToBytes(substring0(doubleSha256(bytesToHex(payload)), 2 * CHECKSUM_BYTES))

\* a checksum that differs from the right one in its last byte
corrupted(checksum) ==
    [ i \in DOMAIN checksum |->
        IF i = Len(checksum) THEN (checksum[i] + 1) % 256 ELSE checksum[i] ]

Scalars == 0 .. (256 * KEY_BYTES - 1)

\* what may follow the key in a payload: nothing, the compression flag,
\* another byte, two bytes
Flags == { <<>>, <<1>>, <<2>>, <<1, 1>> }

WifPayloads == { <<v, k>> \o f : v \in WifVersions, k \in Scalars, f \in Flags }

WifKeys ==
    { base58Encode(p \o checksumOf(p)) : p \in WifPayloads }
    \cup { base58Encode(p \o corrupted(checksumOf(p))) :
             p \in { q \in WifPayloads : q[2] \in {0, 1, SECP256K1_N, 255} } }

HexKeys == { <<a, b>> : a \in HexClass, b \in HexClass }

ShapeHeads == { "5", "K", "L", "H", "1", "a", "0", "O", " " }
ShapeFills == { "1", "a", "O" }
ShapeLasts == { "1", "a", "O", " " }

ShapeKeys ==
    { <<>> } \cup { <<h>> : h \in ShapeHeads }
    \cup { <<h1, h2>> \o [ i \in 1 .. n |-> f ] \o <<l>> :
             h1 \in ShapeHeads, h2 \in ShapeHeads, f \in ShapeFills,
             l \in ShapeLasts, n \in 0 .. (MaxShapeLen - 3) }

pad(n) == [ i \in 1 .. n |-> " " ]

PaddedKeys ==
    { pad(a) \o k \o pad(b) \o nl :
        k \in { h \in HexKeys : h[1] \in {"0", "c", "F"} }
              \cup { w \in WifKeys : w[2] = "J" /\ w[3] = "4" /\ w[4] = "v" },
        a \in 0 .. MaxPad, b \in 0 .. MaxPad, nl \in { <<>>, <<"\n">> } }

InputKeys == HexKeys \cup WifKeys \cup ShapeKeys \cup PaddedKeys

ByteValues == { 0, 1, 57, 58, 255 }

RECURSIVE SeqsUpTo(_, _)
SeqsUpTo(S, n) ==
    IF n = 0
    THEN { <<>> }
    ELSE LET shorter == SeqsUpTo(S, n - 1)
         IN  shorter \cup { <<x>> \o t : x \in S, t \in { u \in shorter : Len(u) = n - 1 } }

InputBytes ==
    SeqsUpTo(ByteValues, MaxBytesLen)
    \cup { p \o checksumOf(p) :
             p \in { q \in WifPayloads : q[2] \in {0, 1, 2, SECP256K1_N, 255} } }
    \cup { p \o corrupted(checksumOf(p)) :
             p \in { q \in WifPayloads : q[2] \in {1, 2} } }

-----------------------------------------------------------------------------
(* The validator: one candidate, classified and validated.                 *)

InitValidator ==
    /\ key \in InputKeys
    /\ detected = <<>>
    /\ out = <<>>
    /\ CodecIdle
    /\ EngineIdle
    /\ ToolIdle
    /\ ExtraIdle

DetectKeyFormat ==
    /\ detected = <<>>
    /\ detected' = << detectKeyFormat(key) >>
    /\ UNCHANGED <<key, out, codecVars, engineVars, toolVars, extraVars>>

ValidatePrivateKey ==
    /\ out = <<>>
    /\ out' = << validatePrivateKey(key) >>
    /\ UNCHANGED <<key, detected, codecVars, engineVars, toolVars, extraVars>>

NextValidator == DetectKeyFormat \/ ValidatePrivateKey

SpecValidator == InitValidator /\ [][NextValidator]_vars

-----------------------------------------------------------------------------
(* The codec: one byte array, encoded, decoded again and parsed as WIF.    *)

InitCodec ==
    /\ bytes \in InputBytes
    /\ encoded = <<>>
    /\ decoded = <<>>
    /\ parsed = <<>>
    /\ ValidatorIdle
    /\ EngineIdle
    /\ ToolIdle
    /\ ExtraIdle

Base58Encode ==
    /\ encoded = <<>>
    /\ encoded' = << base58Encode(bytes) >>
    /\ UNCHANGED <<bytes, decoded, parsed, validatorVars, engineVars, toolVars, extraVars>>

Base58Decode ==
    /\ encoded # <<>>
    /\ decoded = <<>>
    /\ decoded' = << base58Decode(encoded[1]) >>
    /\ UNCHANGED <<bytes, encoded, parsed, validatorVars, engineVars, toolVars, extraVars>>

ValidateWIFChecksum ==
    /\ encoded # <<>>
    /\ parsed = <<>>
    /\ parsed' = << validateWIFChecksum(encoded[1]) >>
    /\ UNCHANGED <<bytes, encoded, decoded, validatorVars, engineVars, toolVars, extraVars>>

NextCodec == Base58Encode \/ Base58Decode \/ ValidateWIFChecksum

SpecCodec == InitCodec /\ [][NextCodec]_vars

-----------------------------------------------------------------------------
(* Properties of the validator (SpecValidator).                            *)

Validated == out # <<>>
Result == out[1]
Format == detectKeyFormat(key)
IsWifFormat == Format \in { "WIF", "WIF-compressed" }

\* the 32-byte scalar a candidate stands for: the value of the hexadecimal
\* digits, or the key bytes of the decoded WIF payload
RECURSIVE bytesToNat(_)
bytesToNat(bs) ==
    IF bs = <<>> THEN 0 ELSE 256 * bytesToNat(SubSeq(bs, 1, Len(bs) - 1)) + bs[Len(bs)]

ScalarOf(k) ==
    IF detectKeyFormat(k) = "hex"
    THEN parseBigIntHex(trim(k)).value
    ELSE bytesToNat(SubSeq(base58Decode(trim(k)).value, 2, KEY_BYTES + 1))

\* the Base58Check condition on a string: it decodes, and its last
\* CHECKSUM_BYTES bytes are the checksum of the bytes before them
ChecksumMatches(str) ==
    LET d == base58Decode(str)
    IN  /\ d.ok
        /\ Len(d.value) >= CHECKSUM_BYTES
        /\ SubSeq(d.value, Len(d.value) - CHECKSUM_BYTES + 1, Len(d.value))
             = checksumOf(SubSeq(d.value, 1, Len(d.value) - CHECKSUM_BYTES))

\* C1: validatePrivateKey never throws: every call returns a result record,
\* and a result with isValid = FALSE carries a non-empty error.
C1_NeverThrows ==
    Validated =>
        /\ "isValid" \in DOMAIN Result
        /\ ~Result.isValid => ("error" \in DOMAIN Result /\ Result.error # "")

\* a call whose derivation step raised (the point at infinity) and whose
\* exception was turned into a result
C1_Witness ==
    /\ Validated
    /\ "error" \in DOMAIN Result
    /\ Result.error
         = "Validation error: Invalid private key - results in point at infinity"

\* C2: every result with isValid = TRUE comes from a scalar s, 0 < s < N,
\* whatever the format of the input.
C2_ValidImpliesInRange ==
    (Validated /\ Result.isValid) =>
        (0 < ScalarOf(key) /\ ScalarOf(key) < SECP256K1_N)

\* C3: an invalid result has matchesPuzzle and checksum false, no address
\* and an error; a valid result has an address, checksum true, no error,
\* and matchesPuzzle exactly when the address is the target address.
C3_ResultShape ==
    Validated =>
        IF Result.isValid
        THEN /\ "address" \in DOMAIN Result
             /\ Result.address # <<>>
             /\ Result.checksum
             /\ "error" \notin DOMAIN Result
             /\ Result.matchesPuzzle <=> (Result.address = GSMG_PUZZLE_ADDRESS)
        ELSE /\ ~Result.matchesPuzzle
             /\ ~Result.checksum
             /\ "address" \notin DOMAIN Result
             /\ "error" \in DOMAIN Result

\* a valid result whose address is the target address
C3_Witness == Validated /\ Result.isValid /\ Result.matchesPuzzle

\* C4: every rejection carries the error of the first failing stage, the
\* format error for an unrecognized shape, the checksum error for a WIF
\* checksum failure, the out-of-range error for a scalar that is zero
\* or >= N; the internal-derivation error is never produced.
C4_FirstFailingStage ==
    (Validated /\ ~Result.isValid) =>
        /\ Result.error \in { ErrFormat, ErrChecksum, ErrRange }
        /\ (Result.error = ErrFormat) <=> (Format = "unknown")
        /\ (Result.error = ErrChecksum) <=> (IsWifFormat /\ ~ChecksumMatches(key))

\* C5: for an input of exactly 64 hexadecimal digits (HEX_KEY_LEN at the
\* scaled width) the values 0, N, N+1 and every other value outside
\* 0 < s < N are rejected as out of range, and N-1 and every value s with
\* 0 < s < N is accepted.
C5_HexRange ==
    (Validated /\ test(HexPattern, key)) =>
        IF 0 < ScalarOf(key) /\ ScalarOf(key) < SECP256K1_N
        THEN Result.isValid /\ Result.format = "hex"
        ELSE ~Result.isValid /\ Result.format = "hex" /\ Result.error = ErrRange

\* the largest scalar, N-1, accepted from its hexadecimal digits
C5_Witness ==
    /\ Validated
    /\ test(HexPattern, key)
    /\ ScalarOf(key) = SECP256K1_N - 1
    /\ Result.isValid

Trimmed == trim(key)
AllIn(str, class) == \A i \in DOMAIN str : str[i] \in class

\* the classification by lexical shape, the second character of an
\* uncompressed WIF being one of the given set
ShapeOf(t, second) ==
    IF Len(t) = HEX_KEY_LEN /\ AllIn(t, HexClass) THEN "hex"
    ELSE IF Len(t) = WIF_LEN /\ t[1] = "5" /\ t[2] \in second /\ AllIn(t, Base58Class)
    THEN "WIF"
    ELSE IF Len(t) = WIF_COMPRESSED_LEN /\ t[1] \in {"K", "L"} /\ AllIn(t, Base58Class)
    THEN "WIF-compressed"
    ELSE "unknown"

OutsideShapes(t) ==
    \/ Len(t) \notin { WIF_LEN, WIF_COMPRESSED_LEN, HEX_KEY_LEN }
    \/ Len(t) = WIF_LEN /\ t[1] \notin { "5", "K", "L" }

\* C7: the three shapes are mutually exclusive, and a string whose trimmed
\* length is not 51, 52 or 64, or that has 51 characters and does not
\* start with '5', 'K' or 'L', is classified unknown and validated as
\* isValid = FALSE with format unknown.
C7_ExclusiveAndComplete ==
    /\ Cardinality({ pat \in { WifPattern, WifCompressedPattern, HexPattern } :
                       test(pat, Trimmed) }) <= 1
    /\ (detected # <<>> /\ OutsideShapes(Trimmed)) => detected[1] = "unknown"
    /\ (Validated /\ OutsideShapes(Trimmed)) =>
           (~Result.isValid /\ Result.format = "unknown")

\* a string of the WIF length that starts with none of 5, K, L, classified
\* and validated
C7_Witness ==
    /\ Len(Trimmed) = WIF_LEN
    /\ Trimmed[1] \notin { "5", "K", "L" }
    /\ detected = << "unknown" >>
    /\ Validated
    /\ Result.format = "unknown"

\* C9: a WIF-shaped input is valid only if its last 4 decoded bytes are the
\* first 4 bytes of the double SHA-256 of the bytes before them; on a
\* mismatch the result is invalid, with checksum false, the checksum error
\* and no address.
C9_ChecksumGate ==
    (Validated /\ IsWifFormat) =>
        /\ Result.isValid => ChecksumMatches(key)
        /\ ~ChecksumMatches(key) =>
               /\ ~Result.isValid
               /\ ~Result.checksum
               /\ Result.error = ErrChecksum
               /\ "address" \notin DOMAIN Result

\* a WIF-shaped string that decodes, with a wrong checksum, rejected
C9_Witness ==
    /\ Validated
    /\ IsWifFormat
    /\ base58Decode(key).ok
    /\ ~ChecksumMatches(key)
    /\ Result.error = ErrChecksum

-----------------------------------------------------------------------------
(* Properties of the codec (SpecCodec).                                    *)

\* C8: validateWIFChecksum accepts a decoded key only when the payload
\* before the checksum is exactly 33 bytes, or exactly 34 bytes with last
\* byte 0x01 (KEY_BYTES + 1 and KEY_BYTES + 2 at the scaled width).
C8_ExactPayload ==
    (parsed # <<>> /\ parsed[1].valid) =>
        LET d == base58Decode(encoded[1]).value
            payloadLen == Len(d) - CHECKSUM_BYTES
        IN  \/ payloadLen = KEY_BYTES + 1
            \/ payloadLen = KEY_BYTES + 2 /\ d[KEY_BYTES + 2] = 1

\* C10: base58Decode(base58Encode(b)) = b for every byte string b,
\* the empty one and those of zero bytes only included.
C10_RoundTrip ==
    decoded # <<>> => (decoded[1].ok /\ decoded[1].value = bytes)

-----------------------------------------------------------------------------
(* The derivation engine of src/lib/key-derivation-engine.ts.              *)
(*                                                                         *)
(* A digest is as wide as a private key (source: 32 bytes both), so a      *)
(* candidate key has HEX_KEY_LEN hexadecimal characters (source: 64).      *)
(* The corpora are scaled down: three tokens (source: 6), four passwords   *)
(* (source: 6), three known hashes (source: 4), three salts (source: 5),   *)
(* and every phrase is a string of a few characters.                       *)

\* String.prototype.toUpperCase
toUpperCase(s) ==
    [ i \in DOMAIN s |->
        IF indexOf(LowerCase, s[i]) >= 0
        THEN UpperCase[indexOf(LowerCase, s[i]) + 1]
        ELSE s[i] ]

\* code of one character of the phrases: letters, digits, "_" and " "
charCodeAt(c) ==
    IF indexOf(LowerCase, c) >= 0 THEN 97 + indexOf(LowerCase, c)
    ELSE IF indexOf(UpperCase, c) >= 0 THEN 65 + indexOf(UpperCase, c)
    ELSE IF indexOf(HexChars, c) >= 0 THEN 48 + indexOf(HexChars, c)
    ELSE IF c = "_" THEN 95
    ELSE 32

\* the UTF-8 bytes crypto-js hashes for a string
Utf8(input) == [ i \in DOMAIN input |-> charCodeAt(input[i]) ]

\* the digest of CryptoJS.SHA256, as wide as a key
digest(bs) == SubSeq(SHA256(bs), SHA256_BYTES - KEY_BYTES + 1, SHA256_BYTES)

sha256(input) == bytesToHex(digest(Utf8(input)))

\* doubleSha256 of the engine: the second hash is over the first digest
engineDoubleSha256(input) == bytesToHex(digest(digest(Utf8(input))))

\* b1 ^ b2 on bytes
RECURSIVE xor(_, _)
xor(b1, b2) ==
    IF b1 = 0 /\ b2 = 0
    THEN 0
    ELSE ((b1 + b2) % 2) + 2 * xor(b1 \div 2, b2 \div 2)

max(a, b) == IF a >= b THEN a ELSE b
min(a, b) == IF a <= b THEN a ELSE b

\* xorHex taking the difference of the bytes for their exclusive or
xorHex_Difference(hex1, hex2) ==
    LET combine(p1, p2) ==
            bytesToHex([ i \in DOMAIN p1 |-> (256 + p1[i] - p2[i]) % 256 ])
        padded(len) ==
            combine(hexToBytes(padStart(hex1, len)), hexToBytes(padStart(hex2, len)))
    IN  padded(max(Len(hex1), Len(hex2)))

xorHex(hex1, hex2) ==
    LET combine(p1, p2) ==
            bytesToHex([ i \in DOMAIN p1 |-> xor(p1[i], p2[i]) ])
        padded(len) ==
            combine(hexToBytes(padStart(hex1, len)), hexToBytes(padStart(hex2, len)))
    IN  padded(max(Len(hex1), Len(hex2)))

\* the pseudo-random function of PBKDF2 (HMAC-SHA256 in crypto-js)
hmac(k, message) == digest(k \o <<54>> \o digest(k \o <<92>> \o message))

RECURSIVE pbkdf2Loop(_, _, _, _)
pbkdf2Loop(password, u, t, n) ==
    IF n = 0
    THEN t
    ELSE LET step(next) ==
                 pbkdf2Loop(password, next,
                            [ i \in DOMAIN t |-> xor(t[i], next[i]) ], n - 1)
         IN  step(hmac(password, u))

pbkdf2Derive(password, salt, iterations) ==
    LET first(u) == bytesToHex(pbkdf2Loop(Utf8(password), u, u, iterations - 1))
    IN  first(hmac(Utf8(password), Utf8(salt) \o <<0, 0, 0, 1>>))

RECURSIVE beaufortLoop(_, _, _, _)
beaufortLoop(upperText, upperKey, i, keyIndex) ==
    IF i > Len(upperText)
    THEN <<>>
    ELSE IF indexOf(UpperCase, upperText[i]) >= 0
    THEN << UpperCase[((indexOf(UpperCase, upperKey[(keyIndex % Len(upperKey)) + 1])
                        - indexOf(UpperCase, upperText[i]) + 26) % 26) + 1] >>
         \o beaufortLoop(upperText, upperKey, i + 1, keyIndex + 1)
    ELSE << upperText[i] >> \o beaufortLoop(upperText, upperKey, i + 1, keyIndex)

beaufortTransform(text, k) == beaufortLoop(toUpperCase(text), toUpperCase(k), 1, 0)

\* Array.prototype.join
RECURSIVE join(_, _)
join(arr, separator) ==
    IF arr = <<>> THEN <<>>
    ELSE IF Len(arr) = 1 THEN arr[1]
    ELSE arr[1] \o separator \o join(Tail(arr), separator)

\* [arr[i], arr[j]] = [arr[j], arr[i]], 0-based
swap(arr, i, j) == [ arr EXCEPT ![i + 1] = arr[j + 1], ![j + 1] = arr[i + 1] ]

\* permutations(inputArr, len): the arrays the generator yields, in order.
\* len is <<>> when the argument is omitted.  arr is a copy made by every
\* call, the recursive ones included: a swap done by an inner call is not
\* seen by its caller.
RECURSIVE permutations(_, _)
RECURSIVE permutationsLoop(_, _, _)
permutationsLoop(arr, size, i) ==
    IF i >= size
    THEN <<>>
    ELSE permutations(arr, <<size - 1>>)
         \o permutationsLoop(swap(arr, IF size % 2 = 0 THEN i ELSE 0, size - 1),
                             size, i + 1)

permutations(inputArr, len) ==
    LET body(arr, size) ==
            IF size = 1 THEN << arr >> ELSE permutationsLoop(arr, size, 0)
    IN  body(inputArr, IF len = <<>> THEN Len(inputArr) ELSE len[1])

\* combinations without its last statement, yield* combinations(rest, k)
RECURSIVE combinations_FirstOnly(_, _)
combinations_FirstOnly(arr, k) ==
    IF k = 0 THEN << <<>> >>
    ELSE IF Len(arr) < k THEN <<>>
    ELSE LET withFirst(first, combos) ==
                 [ i \in DOMAIN combos |-> <<first>> \o combos[i] ]
         IN  withFirst(arr[1], combinations_FirstOnly(Tail(arr), k - 1))

\* combinations(arr, k): the arrays the generator yields, in order
RECURSIVE combinations(_, _)
combinations(arr, k) ==
    IF k = 0 THEN << <<>> >>
    ELSE IF Len(arr) < k THEN <<>>
    ELSE LET withFirst(first, combos) ==
                 [ i \in DOMAIN combos |-> <<first>> \o combos[i] ]
         IN  withFirst(arr[1], combinations(Tail(arr), k - 1))
             \o combinations(Tail(arr), k)

-----------------------------------------------------------------------------
(* The corpora, scaled.                                                     *)

ABBA_TOKENS == << <<"m","s">>, <<"e","n">>, <<"l","w">> >>

PUZZLE_PASSWORDS == << <<"t","s">>, <<"c","a">>, <<"T","M">>, <<"c","i">> >>

KNOWN_HASHES == << <<"e","b">>, <<"1","a">>, <<"2","5">> >>

BEAUFORT_KEY == <<"T","M">>

Salts == << <<"g","s">>, <<"1","G">>, <<"5","B">> >>

WordSets ==
    << << <<"s","e">>, <<"p","l">> >>,
       << <<"f","l">>, <<"b","l">> >> >>

KeyWords == << <<"s","e">>, <<"m","a">>, <<"k","e">> >>

MatrixPhrases == << <<"T","s">>, <<"W","n">> >>

ClaimedPassword == <<"T","S","3">>

\* the iteration count of the "standard" PBKDF2 derivations (source: 2048)
STANDARD_ITERATIONS == 4

-----------------------------------------------------------------------------
(* A strategy generator as the sequence of the statements it executes.     *)
(* The loops of the generators range over the fixed corpora, so the only   *)
(* things that depend on the run are the stop flag, read by                *)
(* "if (this.shouldStop) return", and the candidate's shape, read by       *)
(* addResult in "const result = this.addResult(..); if (result) yield      *)
(* result".                                                                *)

IfShouldStopReturn ==
    [ op |-> "check", key |-> <<>>, method |-> "", inputs |-> <<>> ]

AddResultAndYield(candidate, method, inputs) ==
    [ op |-> "addResult", key |-> candidate, method |-> method, inputs |-> inputs ]

RECURSIVE flatten(_)
flatten(seqs) == IF seqs = <<>> THEN <<>> ELSE seqs[1] \o flatten(Tail(seqs))

\* the statements of "for (const x of arr) body(x)"
forOf(arr, body(_)) == flatten([ i \in DOMAIN arr |-> body(arr[i]) ])

\* the statements of "for (let size = from; size <= to; size++) body(size)"
forSize(from, to, body(_)) ==
    flatten([ i \in 1 .. (to - from + 1) |-> body(from + i - 1) ])

\* `Label(${size})`
labelled(label, size) == label \o "(" \o ToString(size) \o ")"

\* let x = arr[0]; for (i = 1; i < arr.length; i++) x = xorHex(x, arr[i])
RECURSIVE xorChain(_, _)
xorChain(xorResult, rest) ==
    IF rest = <<>> THEN xorResult ELSE xorChain(xorHex(xorResult, rest[1]), Tail(rest))

generateABBAPermutations ==
    LET perPerm(size, perm) ==
            << IfShouldStopReturn,
               AddResultAndYield(sha256(join(perm, <<>>)),
                                 labelled("ABBA-Permutation-SHA256", size), perm),
               AddResultAndYield(sha256(join(perm, <<"_">>)),
                                 labelled("ABBA-Permutation-SHA256-Underscore", size), perm),
               AddResultAndYield(engineDoubleSha256(join(perm, <<>>)),
                                 labelled("ABBA-Permutation-DoubleSHA256", size), perm) >>
        perCombo(size, combo) ==
            << IfShouldStopReturn >>
            \o forOf(permutations(combo, <<>>), LAMBDA perm : perPerm(size, perm))
        perSize(size) ==
            forOf(combinations(ABBA_TOKENS, size), LAMBDA combo : perCombo(size, combo))
    IN  forSize(2, min(Len(ABBA_TOKENS), 7), perSize)

generateXORChains ==
    LET chain(perm, xorResult) ==
            << IfShouldStopReturn,
               AddResultAndYield(xorResult, "XOR-Chain-KnownHashes", perm),
               AddResultAndYield(sha256(xorResult), "XOR-Chain-KnownHashes-SHA256", perm) >>
        perCombo(size, combo) ==
            << IfShouldStopReturn,
               AddResultAndYield(xorChain(combo[1], Tail(combo)),
                                 labelled("XOR-Combo", size), combo) >>
        perSize(size) ==
            forOf(combinations(KNOWN_HASHES, size), LAMBDA combo : perCombo(size, combo))
    IN  forOf(permutations(KNOWN_HASHES, <<>>),
              LAMBDA perm : chain(perm, xorChain(perm[1], Tail(perm))))
        \o forSize(2, 3, perSize)

generateBeaufortDerivations ==
    LET perPassword(password) ==
            << IfShouldStopReturn,
               AddResultAndYield(sha256(beaufortTransform(password, BEAUFORT_KEY)),
                                 "Beaufort-Transform-SHA256", <<password, BEAUFORT_KEY>>),
               AddResultAndYield(xorHex(sha256(password), sha256(BEAUFORT_KEY)),
                                 "Password-XOR-BeaufortKey", <<password, BEAUFORT_KEY>>),
               AddResultAndYield(sha256(password \o BEAUFORT_KEY),
                                 "Password+BeaufortKey-SHA256", <<password, BEAUFORT_KEY>>) >>
        perToken(token) ==
            << IfShouldStopReturn,
               AddResultAndYield(sha256(beaufortTransform(token, BEAUFORT_KEY)),
                                 "ABBA-Beaufort-SHA256", <<token, BEAUFORT_KEY>>) >>
    IN  forOf(PUZZLE_PASSWORDS, perPassword) \o forOf(ABBA_TOKENS, perToken)

generatePBKDF2Derivations ==
    LET perPair(password, salt) ==
            << IfShouldStopReturn,
               AddResultAndYield(pbkdf2Derive(password, salt, STANDARD_ITERATIONS),
                                 "PBKDF2-2048", <<password, salt>>),
               AddResultAndYield(pbkdf2Derive(password, salt, 1),
                                 "PBKDF2-1", <<password, salt>>) >>
        perTokenPair(token, salt) ==
            << IfShouldStopReturn,
               AddResultAndYield(pbkdf2Derive(token, salt, STANDARD_ITERATIONS),
                                 "PBKDF2-ABBA", <<token, salt>>) >>
    IN  forOf(PUZZLE_PASSWORDS,
              LAMBDA password : forOf(Salts, LAMBDA salt : perPair(password, salt)))
        \o forOf(ABBA_TOKENS,
                 LAMBDA token : forOf(SubSeq(Salts, 1, min(2, Len(Salts))),
                                      LAMBDA salt : perTokenPair(token, salt)))

generateBIP39Style ==
    LET perWords(words) ==
            << IfShouldStopReturn,
               AddResultAndYield(pbkdf2Derive(join(words, <<" ">>), <<"m","n">>,
                                              STANDARD_ITERATIONS),
                                 "BIP39-Style-Mnemonic", words),
               AddResultAndYield(sha256(join(words, <<" ">>)),
                                 "BIP39-Direct-SHA256", words) >>
        perPerm(perm) ==
            << IfShouldStopReturn,
               AddResultAndYield(sha256(join(perm, <<" ">>)),
                                 "BIP39-KeyWord-Permutation", perm) >>
    IN  forOf(WordSets, perWords) \o forOf(permutations(KeyWords, <<>>), perPerm)

generatePhraseCombinatins ==
    LET perPassword(pw) ==
            << IfShouldStopReturn,
               AddResultAndYield(sha256(pw), "Direct-SHA256", <<pw>>),
               AddResultAndYield(engineDoubleSha256(pw), "Direct-DoubleSHA256", <<pw>>) >>
        perCombo(size, combo) ==
            << IfShouldStopReturn,
               AddResultAndYield(sha256(join(combo, <<>>)),
                                 labelled("Phrase-Combo-SHA256", size), combo) >>
        perSize(size) ==
            forOf(combinations(PUZZLE_PASSWORDS, size),
                  LAMBDA combo : perCombo(size, combo))
    IN  forOf(PUZZLE_PASSWORDS, perPassword)
        \o forSize(2, 4, perSize)
        \o << AddResultAndYield(sha256(ClaimedPassword),
                                "Claimed-Solution-SHA256", <<ClaimedPassword>>),
              AddResultAndYield(engineDoubleSha256(ClaimedPassword),
                                "Claimed-Solution-DoubleSHA256", <<ClaimedPassword>>) >>

generateMatrixDerivations ==
    LET perPhrase(phrase) ==
            << IfShouldStopReturn,
               AddResultAndYield(sha256(phrase), "Matrix-Reference-SHA256", <<phrase>>),
               AddResultAndYield(sha256(phrase \o BEAUFORT_KEY),
                                 "Matrix+Beaufort-SHA256", <<phrase, BEAUFORT_KEY>>) >>
        perPair(phrase, pw) ==
            << IfShouldStopReturn,
               AddResultAndYield(sha256(phrase \o pw),
                                 "Matrix+Password-SHA256", <<phrase, pw>>) >>
    IN  forOf(MatrixPhrases, perPhrase)
        \o forOf(MatrixPhrases,
                 LAMBDA phrase : forOf(SubSeq(PUZZLE_PASSWORDS, 1, min(3, Len(PUZZLE_PASSWORDS))),
                                       LAMBDA pw : perPair(phrase, pw)))

-----------------------------------------------------------------------------
(* The engine object and its generators.                                   *)

\* /^[0-9a-f]{64}$/i
ResultKeyPattern == repeat(HexClass, HEX_KEY_LEN)

\* the fields of the engine object
This == [ results |-> results, iteration |-> iteration, shouldStop |-> shouldStop,
          onProgress |-> onProgress, log |-> log ]

\* new KeyDerivationEngine(onProgress)
KeyDerivationEngine(observer) ==
    [ results |-> <<>>, iteration |-> 0, shouldStop |-> FALSE,
      onProgress |-> observer, log |-> <<>> ]

\* the call this.onProgress?.({...}) as the observer sees it
Notified(this, method) ==
    [ type |-> "notify",
      totalAttempts |-> this.iteration,
      currentAttempt |-> this.iteration,
      currentMethod |-> method,
      keysGenerated |-> [ i \in DOMAIN this.results |-> this.results[i].key ],
      matchFound |-> FALSE ]

\* a result handed to the consumer of generator g
Yielded(g, result) == [ type |-> "yield", by |-> g, result |-> result ]

\* the consumer's calls of stop() and of a generator function
Stopped == [ type |-> "stop" ]
Invoked(g) == [ type |-> "invoke", by |-> g ]

\* addResult without the shape test
addResult_NoShapeTest(this, candidate, method, inputs) ==
    LET notify(that) ==
            IF that.onProgress
            THEN [ that EXCEPT !.log = Append(@, Notified(that, method)) ]
            ELSE that
        push(result) ==
            [ this |-> notify([ this EXCEPT !.iteration = result.iteration,
                                            !.results = Append(@, result) ]),
              result |-> << result >> ]
    IN  push([ key |-> toLowerCase(candidate), method |-> method,
               inputs |-> inputs, iteration |-> this.iteration + 1 ])

\* addResult that records the candidate as it was given
addResult_KeepsCase(this, candidate, method, inputs) ==
    LET notify(that) ==
            IF that.onProgress
            THEN [ that EXCEPT !.log = Append(@, Notified(that, method)) ]
            ELSE that
        push(result) ==
            [ this |-> notify([ this EXCEPT !.iteration = result.iteration,
                                            !.results = Append(@, result) ]),
              result |-> << result >> ]
    IN  IF ~ test(ResultKeyPattern, candidate)
        THEN [ this |-> this, result |-> <<>> ]
        ELSE push([ key |-> candidate, method |-> method,
                    inputs |-> inputs, iteration |-> this.iteration + 1 ])

\* addResult that numbers a result by the length of the list before the push
addResult_CountsFromZero(this, candidate, method, inputs) ==
    LET notify(that) ==
            IF that.onProgress
            THEN [ that EXCEPT !.log = Append(@, Notified(that, method)) ]
            ELSE that
        push(result) ==
            [ this |-> notify([ this EXCEPT !.iteration = this.iteration + 1,
                                            !.results = Append(@, result) ]),
              result |-> << result >> ]
    IN  IF ~ test(ResultKeyPattern, candidate)
        THEN [ this |-> this, result |-> <<>> ]
        ELSE push([ key |-> toLowerCase(candidate), method |-> method,
                    inputs |-> inputs, iteration |-> Len(this.results) ])

\* addResult(key, method, inputs): the engine after the call and the value
\* returned, <<>> for undefined.  The timestamp of a result is left out.
addResult(this, candidate, method, inputs) ==
    LET notify(that) ==
            IF that.onProgress
            THEN [ that EXCEPT !.log = Append(@, Notified(that, method)) ]
            ELSE that
        push(result) ==
            [ this |-> notify([ this EXCEPT !.iteration = result.iteration,
                                            !.results = Append(@, result) ]),
              result |-> << result >> ]
    IN  IF ~ test(ResultKeyPattern, candidate)
        THEN [ this |-> this, result |-> <<>> ]
        ELSE push([ key |-> toLowerCase(candidate), method |-> method,
                    inputs |-> inputs, iteration |-> this.iteration + 1 ])

\* what a call of next() leaves: the engine, the generator's position, and
\* the value yielded (<<>> when the generator returned)
Suspended(this, pc, value) == [ this |-> this, pc |-> pc, done |-> FALSE, value |-> value ]
Finished(this, pc) == [ this |-> this, pc |-> pc, done |-> TRUE, value |-> <<>> ]

\* next() of a strategy generator that never reads the stop flag
RECURSIVE next_IgnoresStop(_, _, _)
next_IgnoresStop(this, program, pc) ==
    LET afterAdd(added) ==
            IF added.result # <<>>
            THEN Suspended(added.this, pc + 1, added.result)
            ELSE next_IgnoresStop(added.this, program, pc + 1)
        statement(s) ==
            IF s.op = "check"
            THEN next_IgnoresStop(this, program, pc + 1)
            ELSE afterAdd(addResult(this, s.key, s.method, s.inputs))
    IN  IF pc > Len(program) THEN Finished(this, pc) ELSE statement(program[pc])

\* next() of a generator that returns when addResult returns undefined
RECURSIVE next_ReturnsOnReject(_, _, _)
next_ReturnsOnReject(this, program, pc) ==
    LET afterAdd(added) ==
            IF added.result # <<>>
            THEN Suspended(added.this, pc + 1, added.result)
            ELSE Finished(added.this, pc + 1)
        statement(s) ==
            IF s.op = "check"
            THEN IF this.shouldStop THEN Finished(this, pc)
                 ELSE next_ReturnsOnReject(this, program, pc + 1)
            ELSE afterAdd(addResult(this, s.key, s.method, s.inputs))
    IN  IF pc > Len(program) THEN Finished(this, pc) ELSE statement(program[pc])

\* next() of a strategy generator suspended before statement pc: run the
\* statements up to the next yield or return
RECURSIVE next(_, _, _)
next(this, program, pc) ==
    LET afterAdd(added) ==
            IF added.result # <<>>
            THEN Suspended(added.this, pc + 1, added.result)
            ELSE next(added.this, program, pc + 1)
        statement(s) ==
            IF s.op = "check"
            THEN IF this.shouldStop THEN Finished(this, pc) ELSE next(this, program, pc + 1)
            ELSE afterAdd(addResult(this, s.key, s.method, s.inputs))
    IN  IF pc > Len(program) THEN Finished(this, pc) ELSE statement(program[pc])

Strategies ==
    { "generatePhraseCombinatins", "generateABBAPermutations", "generateXORChains",
      "generateBeaufortDerivations", "generatePBKDF2Derivations",
      "generateBIP39Style", "generateMatrixDerivations" }

\* the statements of a strategy generator
Program(strategy) ==
    CASE strategy = "generatePhraseCombinatins" -> generatePhraseCombinatins
      [] strategy = "generateABBAPermutations" -> generateABBAPermutations
      [] strategy = "generateXORChains" -> generateXORChains
      [] strategy = "generateBeaufortDerivations" -> generateBeaufortDerivations
      [] strategy = "generatePBKDF2Derivations" -> generatePBKDF2Derivations
      [] strategy = "generateBIP39Style" -> generateBIP39Style
      [] strategy = "generateMatrixDerivations" -> generateMatrixDerivations

\* const generators = [...] of runAllDerivations
Generators ==
    << "generatePhraseCombinatins", "generateABBAPermutations", "generateXORChains",
       "generateBeaufortDerivations", "generatePBKDF2Derivations",
       "generateBIP39Style", "generateMatrixDerivations" >>

\* next() of runAllDerivations, suspended in generator number gen of its
\* list, itself suspended before statement pc: resume that generator, go on
\* to the following one when it returns, and test the stop flag before the
\* result is passed on.  The pause after a yield is part of the suspension.
RECURSIVE runAllDerivations(_, _, _)
runAllDerivations(this, gen, pc) ==
    LET inner(r) ==
            IF r.done THEN runAllDerivations(r.this, gen + 1, 1)
            ELSE IF r.this.shouldStop
            THEN [ this |-> r.this, gen |-> gen, pc |-> r.pc, done |-> TRUE, value |-> <<>> ]
            ELSE [ this |-> r.this, gen |-> gen, pc |-> r.pc, done |-> FALSE, value |-> r.value ]
    IN  IF gen > Len(Generators)
        THEN [ this |-> this, gen |-> gen, pc |-> pc, done |-> TRUE, value |-> <<>> ]
        ELSE inner(next(this, Program(Generators[gen]), pc))

\* a generator object: which generator function made it, where it is
\* suspended, and whether it has returned
Generator(kind) == [ kind |-> kind, gen |-> 1, pc |-> 1, done |-> FALSE ]

Kinds == Strategies \cup { "runAllDerivations" }

\* one call of next() on generator object g by its consumer
resume(this, g) ==
    IF g.kind = "runAllDerivations"
    THEN runAllDerivations(this, g.gen, g.pc)
    ELSE [ gen |-> 1 ] @@ next(this, Program(g.kind), g.pc)

\* acc[r.method] = (acc[r.method] || 0) + 1 over the result list
RECURSIVE reduceByMethod(_, _, _)
reduceByMethod(list, i, acc) ==
    IF i > Len(list)
    THEN acc
    ELSE reduceByMethod(list, i + 1,
             IF list[i].method \in DOMAIN acc
             THEN [ acc EXCEPT ![list[i].method] = @ + 1 ]
             ELSE acc @@ (list[i].method :> 1))

getStats(this) ==
    [ totalKeys |-> Len(this.results),
      uniqueKeys |-> Cardinality({ this.results[i].key : i \in DOMAIN this.results }),
      byMethod |-> reduceByMethod(this.results, 1, << >>) ]

-----------------------------------------------------------------------------
(* Bounds and inputs of the engine's specifications.                       *)

\* most results added in SpecAddResult
MaxResults == 3

\* most generator objects, and most results, in SpecInterleaved
MaxGenerators == 2
MaxInterleaved == 4

\* candidates handed to addResult: keys in both cases, and strings that
\* are too short, too long, or not hexadecimal
InputCandidates ==
    { <<"a","b">>, <<"A","B">>, <<"a","B">>, <<"0","1">>,
      <<>>, <<"a">>, <<"a","b","c">>, <<"g","1">>, <<"a"," ">> }

InputMethods == { "Direct-SHA256", "XOR-Combo(2)" }

\* generator functions whose objects are interleaved in SpecInterleaved
InterleavedKinds ==
    { "generatePhraseCombinatins", "generateABBAPermutations", "runAllDerivations" }

-----------------------------------------------------------------------------
(* The engine and the consumer of its generators.                          *)

InitEngineObject ==
    /\ results = <<>>
    /\ iteration = 0
    /\ shouldStop = FALSE
    /\ onProgress \in BOOLEAN
    /\ log = <<>>
    /\ gens = <<>>
    /\ stats = <<>>
    /\ ValidatorIdle
    /\ CodecIdle
    /\ ToolIdle
    /\ ExtraIdle

\* engine.stop(); the log keeps the first call
Stop ==
    /\ shouldStop' = TRUE
    /\ log' = IF shouldStop THEN log ELSE Append(log, Stopped)
    /\ UNCHANGED <<results, iteration, onProgress, gens, stats,
                   validatorVars, codecVars, toolVars, extraVars>>

\* a call of a generator function: the object is made, no statement runs
Invoke(kind) ==
    /\ gens' = Append(gens, Generator(kind))
    /\ log' = Append(log, Invoked(Len(gens) + 1))
    /\ UNCHANGED <<results, iteration, shouldStop, onProgress, stats,
                   validatorVars, codecVars, toolVars, extraVars>>

\* the consumer calls next() on generator object number g
Resume(g) ==
    LET apply(r) ==
            /\ results' = r.this.results
            /\ iteration' = r.this.iteration
            /\ log' = IF r.value # <<>>
                      THEN Append(r.this.log, Yielded(g, r.value[1]))
                      ELSE r.this.log
            /\ gens' = [ gens EXCEPT ![g] =
                           [ kind |-> @.kind, gen |-> r.gen, pc |-> r.pc, done |-> r.done ] ]
    IN  /\ g \in DOMAIN gens
        /\ ~ gens[g].done
        /\ apply(resume(This, gens[g]))
        /\ UNCHANGED <<shouldStop, onProgress, stats, validatorVars, codecVars, toolVars, extraVars>>

\* one generator statement on its own, with any candidate:
\* const result = this.addResult(candidate, method, [candidate]);
\* if (result) yield result
AddResult(candidate, method) ==
    LET apply(added) ==
            /\ results' = added.this.results
            /\ iteration' = added.this.iteration
            /\ log' = IF added.result # <<>>
                      THEN Append(added.this.log, Yielded(0, added.result[1]))
                      ELSE added.this.log
    IN  /\ apply(addResult(This, candidate, method, <<candidate>>))
        /\ UNCHANGED <<shouldStop, onProgress, gens, stats,
                       validatorVars, codecVars, toolVars, extraVars>>

\* engine.getStats()
GetStats ==
    /\ stats' = << getStats(This) >>
    /\ UNCHANGED <<results, iteration, shouldStop, onProgress, log, gens,
                   validatorVars, codecVars, toolVars, extraVars>>

\* one generator object, run by its consumer, and stop() at any moment
NextEngine ==
    \/ Stop
    \/ \E kind \in Kinds : gens = <<>> /\ Invoke(kind)
    \/ \E g \in DOMAIN gens : Resume(g)

SpecEngine == InitEngineObject /\ [][NextEngine]_vars

\* addResult on any candidate, and getStats() at any moment
NextAddResult ==
    \/ \E candidate \in InputCandidates, method \in InputMethods :
           iteration < MaxResults /\ AddResult(candidate, method)
    \/ GetStats

SpecAddResult == InitEngineObject /\ [][NextAddResult]_vars

\* several generator objects of one engine, resumed in any order
NextInterleaved ==
    \/ Stop
    \/ \E kind \in InterleavedKinds : Len(gens) < MaxGenerators /\ Invoke(kind)
    \/ \E g \in DOMAIN gens : iteration < MaxInterleaved /\ Resume(g)

SpecInterleaved == InitEngineObject /\ [][NextInterleaved]_vars

-----------------------------------------------------------------------------
(* Properties of the engine.                                               *)

\* the results the consumer received from generator object g, in order
RECURSIVE yieldedBy(_, _)
yieldedBy(g, events) ==
    IF events = <<>> THEN <<>>
    ELSE IF events[1].type = "yield" /\ events[1].by = g
    THEN << events[1].result >> \o yieldedBy(g, Tail(events))
    ELSE yieldedBy(g, Tail(events))

\* the positions of the log with an event of one type
At(type) == { i \in DOMAIN log : log[i].type = type }

LowerHex == { HexChars[i] : i \in DOMAIN HexChars }

\* ^[0-9a-f]{64}$
IsLowerHexKey(k) == Len(k) = HEX_KEY_LEN /\ \A i \in DOMAIN k : k[i] \in LowerHex

\* C11: every result in the result list and every result a generator
\* statement yields has a key of exactly HEX_KEY_LEN lower-case hexadecimal
\* digits, and comes from a candidate that passes the shape test: a
\* candidate that fails it is neither recorded nor yielded.  (In
\* SpecAddResult the inputs of a result are the candidate itself.)
C11_ValidKeysOnly ==
    /\ \A i \in DOMAIN results :
         /\ IsLowerHexKey(results[i].key)
         /\ test(ResultKeyPattern, results[i].inputs[1])
    /\ \A i \in At("yield") :
         /\ IsLowerHexKey(log[i].result.key)
         /\ test(ResultKeyPattern, log[i].result.inputs[1])

\* a candidate in upper case was accepted, recorded in lower case and yielded
C11_Witness ==
    \E i \in At("yield") :
      /\ log[i].result.inputs[1] # log[i].result.key
      /\ \E j \in DOMAIN results : results[j] = log[i].result

\* the results generator object g yielded after position s of the log
YieldsAfter(g, s) == { i \in At("yield") : i > s /\ log[i].by = g }

\* generator object g had yielded, and so was suspended at a yield or had
\* returned, when the event at position s happened
HadYielded(g, s) == \E i \in At("yield") : i < s /\ log[i].by = g

\* C12: when stop() is called while a strategy generator is suspended at a
\* yield, the generator yields at most one further result before it
\* finishes, whichever strategy and whichever of its yields it is at.
C12_AtMostOneAfterStop ==
    \A g \in DOMAIN gens : \A s \in At("stop") :
        (gens[g].kind \in Strategies /\ HadYielded(g, s))
            => Cardinality(YieldsAfter(g, s)) <= 1

\* generator object g was made by a call that came after stop()
InvokedAfterStop(g) ==
    \E s \in At("stop") : \E i \in At("invoke") : log[i].by = g /\ s < i

\* C13: once stop() has been called the flag stays set, and a generator
\* (strategy or runAllDerivations) invoked after that returns at its first
\* next(): it yields nothing, the observer hears nothing and the result
\* list is left as it is.
C13_StopIsFinal ==
    [][ /\ shouldStop => shouldStop'
        /\ \A g \in DOMAIN gens :
             (InvokedAfterStop(g) /\ gens'[g] # gens[g])
                 => (gens'[g].done /\ results' = results /\ log' = log) ]_vars

\* a generator invoked after stop() has been resumed and has returned
C13_Witness ==
    \E g \in DOMAIN gens :
        InvokedAfterStop(g) /\ gens[g].done /\ gens[g].kind = "runAllDerivations"

\* a result without its sequence number
Unnumbered(result) ==
    [ key |-> result.key, method |-> result.method, inputs |-> result.inputs ]

\* the results a strategy's statements produce when none is skipped
RECURSIVE produced(_)
produced(program) ==
    IF program = <<>> THEN <<>>
    ELSE IF program[1].op = "addResult" /\ test(ResultKeyPattern, program[1].key)
    THEN << [ key |-> toLowerCase(program[1].key), method |-> program[1].method,
              inputs |-> program[1].inputs ] >> \o produced(Tail(program))
    ELSE produced(Tail(program))

IsPrefix(s, t) == Len(s) <= Len(t) /\ s = SubSeq(t, 1, Len(s))

\* what the consumer of generator object g received, without the numbers
Received(g) == [ i \in DOMAIN yieldedBy(g, log) |-> Unnumbered(yieldedBy(g, log)[i]) ]

\* the five strategies of the specification, in its order
FiveStrategies ==
    produced(generatePhraseCombinatins) \o produced(generateABBAPermutations)
    \o produced(generateXORChains) \o produced(generateBeaufortDerivations)
    \o produced(generatePBKDF2Derivations)

\* C14: runAllDerivations yields the results of phrase combinations, then
\* of the permutations, the XOR chains, the Beaufort transforms and PBKDF2,
\* each strategy complete before the next, and no result of any other
\* strategy: what its consumer has received is always a prefix of that
\* concatenation, and all of it once an unstopped run has returned.
C14_FiveInOrder ==
    \A g \in DOMAIN gens :
        gens[g].kind = "runAllDerivations"
            => /\ IsPrefix(Received(g), FiveStrategies)
               /\ (gens[g].done /\ ~ shouldStop) => Received(g) = FiveStrategies

\* all orderings of the elements of an array without repeated elements
Orderings(arr) ==
    { p \in [ DOMAIN arr -> { arr[i] : i \in DOMAIN arr } ] :
        \A i, j \in DOMAIN arr : i # j => p[i] # p[j] }

\* how many of the results generator object g yielded have these inputs
\* and this method label
Count(g, inputs, method) ==
    Cardinality({ i \in DOMAIN Received(g) :
                    Received(g)[i].inputs = inputs /\ Received(g)[i].method = method })

\* C15: a complete run of generateABBAPermutations enumerates, for every
\* subset size from 2 to min(7, corpus size) and every combination of that
\* size, every ordering of the combination exactly once, and yields exactly
\* three results for it: SHA-256, SHA-256 of the underscore-joined form,
\* and double SHA-256.
C15_EveryPermutationOnce ==
    \A g \in DOMAIN gens :
        (gens[g].kind = "generateABBAPermutations" /\ gens[g].done /\ ~ shouldStop)
            => \A size \in 2 .. min(Len(ABBA_TOKENS), 7) :
                 \A c \in DOMAIN combinations(ABBA_TOKENS, size) :
                   \A p \in Orderings(combinations(ABBA_TOKENS, size)[c]) :
                     \A label \in { "ABBA-Permutation-SHA256",
                                    "ABBA-Permutation-SHA256-Underscore",
                                    "ABBA-Permutation-DoubleSHA256" } :
                       Count(g, p, labelled(label, size)) = 1

\* the k-element subsets of an array, each with its elements in the
\* array's order
SubsetsInOrder(arr, k) ==
    { [ i \in 1 .. k |-> arr[f[i]] ] :
        f \in { h \in [ 1 .. k -> DOMAIN arr ] :
                  \A i, j \in 1 .. k : i < j => h[i] < h[j] } }

NoRepeats(s) == \A i, j \in DOMAIN s : i # j => s[i] # s[j]

\* combinations(arr, k) yields every k-element subset of arr exactly once,
\* its elements in the order of arr, for the corpus and its prefixes
CombinationsAreSubsets ==
    \A n \in 0 .. Len(PUZZLE_PASSWORDS) : \A k \in 0 .. (n + 1) :
        /\ NoRepeats(combinations(SubSeq(PUZZLE_PASSWORDS, 1, n), k))
        /\ { combinations(SubSeq(PUZZLE_PASSWORDS, 1, n), k)[i] :
               i \in DOMAIN combinations(SubSeq(PUZZLE_PASSWORDS, 1, n), k) }
           = SubsetsInOrder(SubSeq(PUZZLE_PASSWORDS, 1, n), k)

\* per token, its SHA-256 result and then its double-SHA-256 result
PhraseDirect ==
    flatten([ i \in DOMAIN PUZZLE_PASSWORDS |->
        << [ key |-> sha256(PUZZLE_PASSWORDS[i]), method |-> "Direct-SHA256",
             inputs |-> << PUZZLE_PASSWORDS[i] >> ],
           [ key |-> engineDoubleSha256(PUZZLE_PASSWORDS[i]),
             method |-> "Direct-DoubleSHA256",
             inputs |-> << PUZZLE_PASSWORDS[i] >> ] >> ])

\* one result per combination of a size
PhraseCombos(size) ==
    [ c \in DOMAIN combinations(PUZZLE_PASSWORDS, size) |->
        [ key |-> sha256(join(combinations(PUZZLE_PASSWORDS, size)[c], <<>>)),
          method |-> labelled("Phrase-Combo-SHA256", size),
          inputs |-> combinations(PUZZLE_PASSWORDS, size)[c] ] ]

\* the two results of the claimed solution phrase
PhraseClaimed ==
    << [ key |-> sha256(ClaimedPassword), method |-> "Claimed-Solution-SHA256",
         inputs |-> << ClaimedPassword >> ],
       [ key |-> engineDoubleSha256(ClaimedPassword),
         method |-> "Claimed-Solution-DoubleSHA256",
         inputs |-> << ClaimedPassword >> ] >>

\* generator object g is a phrase-combination generator that has run to
\* its end without stop()
PhraseRunComplete(g) ==
    gens[g].kind = "generatePhraseCombinatins" /\ gens[g].done /\ ~ shouldStop

\* C16 as stated: a complete run of the phrase-combination strategy yields,
\* in this order and nothing else, per token its SHA-256 result and its
\* double-SHA-256 result, then one result per combination of size 2, 3 and
\* 4; combinations yields every k-element subset exactly once, in order.
C16_DirectThenCombosOnly ==
    /\ CombinationsAreSubsets
    /\ \A g \in DOMAIN gens :
         PhraseRunComplete(g)
             => Received(g) = PhraseDirect \o PhraseCombos(2) \o PhraseCombos(3)
                              \o PhraseCombos(4)

\* C16 amended: the same, followed by the SHA-256 result and the
\* double-SHA-256 result of the claimed solution phrase.
C16_DirectCombosClaimed ==
    /\ CombinationsAreSubsets
    /\ \A g \in DOMAIN gens :
         PhraseRunComplete(g)
             => Received(g) = PhraseDirect \o PhraseCombos(2) \o PhraseCombos(3)
                              \o PhraseCombos(4) \o PhraseClaimed

\* a phrase-combination generator has run to its end
C16_Witness ==
    \E g \in DOMAIN gens :
        PhraseRunComplete(g) /\ Len(Received(g)) > Len(PhraseDirect) + Len(PhraseClaimed)

\* C17: the sequence counter grows by exactly one with each accepted
\* result and never decreases; the i-th entry of the result list carries
\* the number i, and the counter equals the length of the list, also when
\* several generators of one engine are resumed in turn.
C17_CounterNumbersResults ==
    /\ [](/\ iteration = Len(results)
          /\ \A i \in DOMAIN results : results[i].iteration = i)
    /\ [][ \/ (iteration' = iteration /\ results' = results)
           \/ (/\ iteration' = iteration + 1
               /\ Len(results') = Len(results) + 1
               /\ SubSeq(results', 1, Len(results)) = results) ]_vars

\* two generator objects of one engine have yielded in alternation, one of
\* them runAllDerivations
C17_Witness ==
    /\ \E i, j, k \in At("yield") :
         i < j /\ j < k /\ log[i].by = log[k].by /\ log[i].by # log[j].by
    /\ \E g \in DOMAIN gens : gens[g].kind = "runAllDerivations"
    /\ iteration >= 3

\* the keys of the results the consumer had received before position n of
\* the log, in order
RECURSIVE keysYielded(_)
keysYielded(events) ==
    IF events = <<>> THEN <<>>
    ELSE IF events[1].type = "yield"
    THEN << events[1].result.key >> \o keysYielded(Tail(events))
    ELSE keysYielded(Tail(events))

\* C18: the observer is notified exactly once per result yielded to the
\* consumer, after that result has been yielded: the k-th notification
\* follows the k-th yield, its totalAttempts is the number of results
\* yielded so far and its keysGenerated their keys in order; and a
\* complete unstopped run of a strategy yields the same results with an
\* observer as without.
C18_NotifiedAfterEachYield ==
    /\ \A n \in At("notify") :
         /\ Cardinality({ m \in At("notify") : m <= n })
              = Cardinality({ i \in At("yield") : i < n })
         /\ log[n].totalAttempts = Cardinality({ i \in At("yield") : i < n })
         /\ log[n].keysGenerated = keysYielded(SubSeq(log, 1, n))
    /\ \A g \in DOMAIN gens :
         (gens[g].kind \in Strategies /\ gens[g].done /\ ~ shouldStop)
             => Received(g) = produced(Program(gens[g].kind))

RECURSIVE Sum(_, _)
Sum(f, S) ==
    IF S = {} THEN 0
    ELSE LET x == CHOOSE y \in S : TRUE IN f[x] + Sum(f, S \ {x})

\* two keys are the same key when case is ignored
SameKey(k1, k2) == toLowerCase(k1) = toLowerCase(k2)

\* C19: getStats() returns totalKeys equal to the length of the result
\* list, uniqueKeys equal to the number of keys that are distinct when case
\* is ignored, and byMethod counts that are all positive and add up to
\* totalKeys.
C19_StatsOfResults ==
    [][ stats' # stats =>
          /\ stats'[1].totalKeys = Len(results')
          /\ \E T \in SUBSET { results'[i].key : i \in DOMAIN results' } :
               /\ \A i \in DOMAIN results' : \E k \in T : SameKey(k, results'[i].key)
               /\ \A k1, k2 \in T : SameKey(k1, k2) => k1 = k2
               /\ stats'[1].uniqueKeys = Cardinality(T)
          /\ \A m \in DOMAIN stats'[1].byMethod : stats'[1].byMethod[m] > 0
          /\ Sum(stats'[1].byMethod, DOMAIN stats'[1].byMethod) = stats'[1].totalKeys ]_vars

\* getStats() was called on a list in which two candidates that differ
\* only in case were recorded, under two methods
C19_Witness ==
    /\ stats # <<>>
    /\ stats[1].totalKeys = Len(results)
    /\ stats[1].uniqueKeys < stats[1].totalKeys
    /\ Cardinality(DOMAIN stats[1].byMethod) = 2
    /\ \E i, j \in DOMAIN results :
         results[i].inputs # results[j].inputs /\ results[i].key = results[j].key

-----------------------------------------------------------------------------
(* The run_derivation_batch tool of src/lib/agent-tools.ts.                *)

\* (params.limit as number) || 100
DEFAULT_LIMIT == 100

\* keys.slice(0, 10) and k.key.substring(0, 16) of sampleKeys
SAMPLE_KEYS == 10
SAMPLE_PREFIX == 16

\* largest limit of a request
MaxLimit == 40

\* for (const key of generator) { keys.push(key); count++;
\*                                if (count >= limit) break }
\* with count the number of keys pushed so far, by this loop and before it
RECURSIVE forOfGenerator(_, _, _, _, _)
forOfGenerator(this, program, pc, keys, limit) ==
    LET pushed(r, all) ==
            IF Len(all) >= limit
            THEN [ this |-> r.this, keys |-> all, broke |-> TRUE ]
            ELSE forOfGenerator(r.this, program, r.pc, all, limit)
        step(r) ==
            IF r.done
            THEN [ this |-> r.this, keys |-> keys, broke |-> FALSE ]
            ELSE pushed(r, Append(keys, r.value[1]))
    IN  step(next(this, program, pc))

\* const allGenerators = [...] of the default branch
allGenerators ==
    << "generatePhraseCombinatins", "generateABBAPermutations", "generateXORChains",
       "generateBeaufortDerivations", "generatePBKDF2Derivations" >>

\* outer: for (const gen of allGenerators) for (const key of gen) {...
\*            if (count >= limit) break outer }
RECURSIVE outer(_, _, _, _)
outer(this, gen, keys, limit) ==
    LET after(r) ==
            IF r.broke THEN r.keys ELSE outer(r.this, gen + 1, r.keys, limit)
    IN  IF gen > Len(allGenerators)
        THEN keys
        ELSE after(forOfGenerator(this, Program(allGenerators[gen]), 1, keys, limit))

\* the generator the switch picks for a method, <<>> in the default branch
generatorOf(method) ==
    CASE method = "abba_permutations" -> << "generateABBAPermutations" >>
      [] method = "xor_chains" -> << "generateXORChains" >>
      [] method = "beaufort" -> << "generateBeaufortDerivations" >>
      [] method = "pbkdf2" -> << "generatePBKDF2Derivations" >>
      [] method = "phrases" -> << "generatePhraseCombinatins" >>
      [] OTHER -> <<>>

\* the ToolResult built from the keys; executionTime is left out
toolResult(method, keys) ==
    [ tool |-> "run_derivation_batch",
      success |-> TRUE,
      result |-> [ method |-> method,
                   keysGenerated |-> Len(keys),
                   sampleKeys |->
                       [ i \in 1 .. min(SAMPLE_KEYS, Len(keys)) |->
                           [ key |-> substring0(keys[i].key, SAMPLE_PREFIX) \o <<".", ".", ".">>,
                             method |-> keys[i].method ] ] ],
      keysFound |-> [ i \in DOMAIN keys |-> keys[i].key ] ]

\* case "run_derivation_batch" of executeTool; params.limit is <<>> when
\* the parameter is missing
run_derivation_batch(params) ==
    LET run(generator, limit, engine) ==
            IF generator = <<>>
            THEN toolResult("all", outer(engine, 1, <<>>, limit))
            ELSE toolResult(params.method,
                            forOfGenerator(engine, Program(generator[1]), 1, <<>>, limit).keys)
    IN  run(generatorOf(params.method),
            IF params.limit = <<>> \/ params.limit[1] = 0
            THEN DEFAULT_LIMIT ELSE params.limit[1],
            KeyDerivationEngine(FALSE))

Methods == { "abba_permutations", "xor_chains", "beaufort", "pbkdf2", "phrases",
             "all", "bip39" }

Requests ==
    { [ method |-> m, limit |-> l ] :
        m \in Methods, l \in { <<>> } \cup { <<n>> : n \in 0 .. MaxLimit } }

InitBatch ==
    /\ request \in { << r >> : r \in Requests }
    /\ response = <<>>
    /\ ValidatorIdle
    /\ CodecIdle
    /\ EngineIdle
    /\ ExtraIdle

RunDerivationBatch ==
    /\ response = <<>>
    /\ response' = << run_derivation_batch(request[1]) >>
    /\ UNCHANGED <<request, validatorVars, codecVars, engineVars, extraVars>>

NextBatch == RunDerivationBatch

SpecBatch == InitBatch /\ [][NextBatch]_vars

\* the number of results the strategies of a method produce
Producible(method) ==
    IF generatorOf(method) = <<>>
    THEN Len(FiveStrategies)
    ELSE Len(produced(Program(generatorOf(method)[1])))

\* C20: run_derivation_batch stops after N results: for every limit N and
\* every method it returns at most N keys, and exactly the smaller of N and
\* the number of results the method's strategies produce.
C20_StopsAfterLimit ==
    (response # <<>> /\ request[1].limit # <<>>)
        => /\ Len(response[1].keysFound) <= request[1].limit[1]
           /\ Len(response[1].keysFound)
                = min(request[1].limit[1], Producible(request[1].method))

-----------------------------------------------------------------------------
(* A generator loop over candidates of any shape.                          *)

\* most candidates in SpecCandidates
MaxCandidates == 3

\* for (const xorResult of candidates) {
\*   const result = this.addResult(xorResult, "XOR-Chain-KnownHashes", [xorResult])
\*   if (result) yield result }
forCandidates(arr) ==
    [ i \in DOMAIN arr |->
        AddResultAndYield(arr[i], "XOR-Chain-KnownHashes", << arr[i] >>) ]

InitCandidates ==
    /\ candidates \in SeqsUpTo(InputCandidates, MaxCandidates)
    /\ results = <<>>
    /\ iteration = 0
    /\ shouldStop = FALSE
    /\ onProgress \in BOOLEAN
    /\ log = <<>>
    /\ gens = << Generator("forCandidates") >>
    /\ stats = <<>>
    /\ ValidatorIdle
    /\ CodecIdle
    /\ ToolIdle
    /\ CurveIdle
    /\ HookIdle

\* the consumer calls next() on the generator of the loop
ResumeCandidates ==
    LET apply(r) ==
            /\ results' = r.this.results
            /\ iteration' = r.this.iteration
            /\ log' = IF r.value # <<>>
                      THEN Append(r.this.log, Yielded(1, r.value[1]))
                      ELSE r.this.log
            /\ gens' = << [ kind |-> gens[1].kind, gen |-> 1, pc |-> r.pc, done |-> r.done ] >>
    IN  /\ ~ gens[1].done
        /\ apply(next(This, forCandidates(candidates), gens[1].pc))
        /\ UNCHANGED <<shouldStop, onProgress, stats, candidates,
                       validatorVars, codecVars, toolVars, curveVars, hookVars>>

NextCandidates == ResumeCandidates

SpecCandidates == InitCandidates /\ [][NextCandidates]_vars

\* the candidates the loop handed to addResult in a step: those from the
\* position it was suspended at up to the one before its new position
Handled == { i \in DOMAIN candidates : gens[1].pc <= i /\ i < gens'[1].pc }

Passes(i) == test(ResultKeyPattern, candidates[i])

\* C21: a candidate that fails the shape test leaves the counter and the
\* result list as they are and causes no notification, and the generator
\* goes on with its next candidate: a call of next() hands candidates to
\* addResult until one passes or none is left, and the counter, the list
\* and the observer's notifications grow by the number that passed.
C21_RejectedLeavesNoTrace ==
    [][ gens' # gens =>
          /\ \A i \in Handled : Passes(i) <=> (i = gens'[1].pc - 1 /\ ~ gens'[1].done)
          /\ gens'[1].done => gens'[1].pc = Len(candidates) + 1
          /\ iteration' = iteration + Cardinality({ i \in Handled : Passes(i) })
          /\ Len(results') = iteration'
          /\ SubSeq(results', 1, Len(results)) = results
          /\ Cardinality({ n \in DOMAIN log' : log'[n].type = "notify" })
               = IF onProgress THEN iteration' ELSE 0 ]_vars

\* the loop was handed a failing candidate first, went past it and yielded
\* the result of the second, with an observer installed
C21_Witness ==
    /\ Len(candidates) >= 2
    /\ ~ test(ResultKeyPattern, candidates[1])
    /\ test(ResultKeyPattern, candidates[2])
    /\ gens[1].pc = 3
    /\ iteration = 1
    /\ onProgress

-----------------------------------------------------------------------------
(* The curve arithmetic on its own.                                        *)

\* largest scalar handed to pointMultiply
MaxScalar == 400

BasePoint == << SECP256K1_Gx, SECP256K1_Gy >>

\* y^2 = x^3 + 7 (mod P)
OnCurve(p) ==
    /\ p # NullPoint
    /\ p[1] \in 0 .. (SECP256K1_P - 1)
    /\ p[2] \in 0 .. (SECP256K1_P - 1)
    /\ (p[2] * p[2]) % SECP256K1_P = (p[1] * p[1] * p[1] + 7) % SECP256K1_P

\* the points of the curve other than the point at infinity; the group has
\* prime order, so each of them generates it
CurvePoints ==
    { p \in (0 .. (SECP256K1_P - 1)) \X (0 .. (SECP256K1_P - 1)) : OnCurve(p) }

InitPointMultiply ==
    /\ operands \in (0 .. MaxScalar) \X CurvePoints
    /\ outcome = <<>>
    /\ candidates = <<>>
    /\ ValidatorIdle
    /\ CodecIdle
    /\ EngineIdle
    /\ ToolIdle
    /\ HookIdle

PointMultiply ==
    /\ outcome = <<>>
    /\ outcome' = << pointMultiply(operands[1], operands[2]) >>
    /\ UNCHANGED <<operands, candidates, validatorVars, codecVars, engineVars, toolVars,
                   hookVars>>

NextPointMultiply == PointMultiply

SpecPointMultiply == InitPointMultiply /\ [][NextPointMultiply]_vars

\* the sum of k copies of g is the sum of k - 1 copies of g with one more
\* g added to it (and no point for k = 0); m is the claimed sum of k - 1
\* copies
IsKFoldSum(k, g, p, m) ==
    IF k = 0 THEN p = NullPoint ELSE p = pointAdd(m, g)

\* C22: for a scalar k >= 0, pointMultiply(k, G) is the point at infinity
\* only if k mod N = 0, and otherwise a point that satisfies
\* y^2 = x^3 + 7 (mod P) and is the k-fold sum of G: by induction over
\* every scalar up to MaxScalar, the product for 0 is no point and the
\* product for k is the product for k - 1 plus G.
C22_MultipleOfG ==
    outcome # <<>> =>
        LET k == operands[1]
        IN  /\ outcome[1] = NullPoint => k % SECP256K1_N = 0
            /\ k % SECP256K1_N # 0 => OnCurve(outcome[1])
            /\ IsKFoldSum(k, operands[2], outcome[1],
                          IF k = 0 THEN NullPoint
                          ELSE pointMultiply(k - 1, operands[2]))

\* scalars beyond the group order have been multiplied: N + 1 gives G again
C22_Witness ==
    /\ outcome # <<>>
    /\ operands[1] = SECP256K1_N + 1
    /\ operands[2] = BasePoint
    /\ outcome[1] = BasePoint

InitPointAdd ==
    /\ operands \in (CurvePoints \cup {NullPoint}) \X (CurvePoints \cup {NullPoint})
    /\ outcome = <<>>
    /\ candidates = <<>>
    /\ ValidatorIdle
    /\ CodecIdle
    /\ EngineIdle
    /\ ToolIdle
    /\ HookIdle

PointAddition ==
    /\ outcome = <<>>
    /\ outcome' = << pointAdd(operands[1], operands[2]) >>
    /\ UNCHANGED <<operands, candidates, validatorVars, codecVars, engineVars, toolVars,
                   hookVars>>

NextPointAdd == PointAddition

SpecPointAdd == InitPointAdd /\ [][NextPointAdd]_vars

\* the x with a * x = 1 (mod P)
InverseModP(a) == CHOOSE x \in 0 .. (SECP256K1_P - 1) : (a * x) % SECP256K1_P = 1

\* the third point of the line of slope s through p and q, mirrored
ThirdPoint(s, p, q) ==
    LET x == (s * s - p[1] - q[1]) % SECP256K1_P
    IN  << x, (s * (p[1] - x) - p[2]) % SECP256K1_P >>

TangentSlope(p) == (3 * p[1] * p[1] * InverseModP((2 * p[2]) % SECP256K1_P)) % SECP256K1_P

ChordSlope(p, q) ==
    ((q[2] - p[2]) * InverseModP((q[1] - p[1]) % SECP256K1_P)) % SECP256K1_P

\* C23: for all curve points P and Q, pointAdd returns the other operand
\* when one operand is the point at infinity, the doubling with slope
\* 3x^2 * inverse(2y) when P = Q, the point at infinity when P.x = Q.x and
\* P.y # Q.y, and the chord-rule sum otherwise.
C23_SpecialCases ==
    outcome # <<>> =>
        LET p == operands[1]
            q == operands[2]
            r == outcome[1]
        IN  IF p = NullPoint THEN r = q
            ELSE IF q = NullPoint THEN r = p
            ELSE IF p = q THEN r = ThirdPoint(TangentSlope(p), p, p)
            ELSE IF p[1] = q[1] THEN r = NullPoint
            ELSE r = ThirdPoint(ChordSlope(p, q), p, q)

\* a point has been added to its mirror image, and the sum is no point
C23_Witness ==
    /\ outcome # <<>>
    /\ operands[1] = BasePoint
    /\ operands[2] = << SECP256K1_Gx, SECP256K1_P - SECP256K1_Gy >>
    /\ outcome[1] = NullPoint

\* largest operand handed to modInverse
MaxOperand == 430

\* prime moduli: small ones, the group order and the field prime
PrimeModuli == { 2, 3, 5, 7, 11, SECP256K1_N, SECP256K1_P }

InitModInverse ==
    /\ operands \in (0 .. MaxOperand) \X PrimeModuli
    /\ outcome = <<>>
    /\ candidates = <<>>
    /\ ValidatorIdle
    /\ CodecIdle
    /\ EngineIdle
    /\ ToolIdle
    /\ HookIdle

\* modInverse has no throw statement and its loop ends for every m > 0:
\* every call returns
ModInverse ==
    /\ outcome = <<>>
    /\ outcome' = << Returned(modInverse(operands[1], operands[2])) >>
    /\ UNCHANGED <<operands, candidates, validatorVars, codecVars, engineVars, toolVars,
                   hookVars>>

NextModInverse == ModInverse

SpecModInverse == InitModInverse /\ [][NextModInverse]_vars

\* for a not divisible by the prime m, the call returns the x in [0, m)
\* with a * x mod m = 1
C24_InverseWhenInvertible ==
    (outcome # <<>> /\ operands[1] % operands[2] # 0) =>
        /\ outcome[1].ok
        /\ outcome[1].value \in 0 .. (operands[2] - 1)
        /\ (operands[1] * outcome[1].value) % operands[2] = 1

\* C24: for a prime m, modInverse(a, m) returns the x in [0, m) with
\* a * x mod m = 1 for every a not divisible by m (a > m included), and
\* fails with an error instead of returning a value when a mod m = 0.
C24_InverseOrError ==
    /\ C24_InverseWhenInvertible
    /\ (outcome # <<>> /\ operands[1] % operands[2] = 0) => ~outcome[1].ok

-----------------------------------------------------------------------------
(* The result list against what runAllDerivations has passed on.           *)

\* while stop() has not been called, the driver has yielded every result
C25_UnstoppedResultsYielded ==
    (Len(gens) = 1 /\ gens[1].kind = "runAllDerivations" /\ ~ shouldStop)
        => Len(yieldedBy(1, log)) = Len(results)

\* C25: wherever stop() is called, every result of the result list has
\* been yielded to the consumer of runAllDerivations: with the driver as
\* the engine's only generator, suspended or finished, the number of
\* results it has yielded is the length of the result list.
C25_EveryResultYielded ==
    (Len(gens) = 1 /\ gens[1].kind = "runAllDerivations")
        => Len(yieldedBy(1, log)) = Len(results)

-----------------------------------------------------------------------------
(* The hook: tested keys and found keys.                                   *)
(*                                                                         *)
(* MAX_TESTED_KEYS and MAX_FOUND_KEYS are scaled down with the keys.  A    *)
(* found key is recorded without its mask, iteration and timestamp.        *)

MAX_TESTED_KEYS == 2
MAX_FOUND_KEYS == 3

\* longest history of validateAndAddKey calls and clears
MaxKeyCalls == 5

\* testedKeysRef.current.has(key)
has(set, k) == \E i \in DOMAIN set : set[i] = k

\* testedKeysRef.current.add(key)
add(set, k) == IF has(set, k) THEN set ELSE Append(set, k)

\* arr.slice(-n) for n >= 0 (slice(-0) is the whole array)
sliceLast(arr, n) ==
    IF n = 0 \/ n >= Len(arr) THEN arr ELSE SubSeq(arr, Len(arr) - n + 1, Len(arr))

\* arr.slice(0, n)
sliceFirst(arr, n) == SubSeq(arr, 1, min(n, Len(arr)))

FoundKey(k, validation, source) == [ key |-> k, validation |-> validation, source |-> source ]

\* the part of the hook validateAndAddKey reads and writes
Keys == [ testedKeys |-> testedKeys, foundKeys |-> foundKeys,
          puzzleSolved |-> puzzleSolved, shouldContinue |-> shouldContinue,
          keyLog |-> keyLog ]

\* a call of validateAndAddKey in the history
Called(k, validated, returned) ==
    [ type |-> "call", key |-> k, validated |-> validated, returned |-> returned ]

Cleared == [ type |-> "clear" ]

\* validateAndAddKey(key, source): the hook after the call, the value
\* returned (<<>> for null) in the last event of its history
validateAndAddKey(h, k, source) ==
    LET found(validation) ==
            [ h EXCEPT
                !.testedKeys = add(h.testedKeys, k),
                !.foundKeys = sliceFirst(<< FoundKey(k, validation, source) >> \o h.foundKeys,
                                         MAX_FOUND_KEYS),
                !.puzzleSolved = validation.matchesPuzzle \/ h.puzzleSolved,
                !.shouldContinue = IF validation.matchesPuzzle THEN FALSE
                                   ELSE h.shouldContinue,
                !.keyLog = Append(h.keyLog,
                                  Called(k, TRUE, << FoundKey(k, validation, source) >>)) ]
        validated(validation) ==
            IF validation.isValid
            THEN found(validation)
            ELSE [ h EXCEPT !.testedKeys = add(h.testedKeys, k),
                            !.keyLog = Append(h.keyLog, Called(k, TRUE, <<>>)) ]
    IN  IF has(h.testedKeys, k)
        THEN [ h EXCEPT !.keyLog = Append(h.keyLog, Called(k, FALSE, <<>>)) ]
        ELSE validated(validatePrivateKey(k))

\* keys handed to validateAndAddKey: two valid ones, the winning one and
\* one out of range
HookKeys == { <<"0","1">>, <<"0","2">>, <<"2","a">>, <<"0","0">> }

InitKeys ==
    /\ HookIdle
    /\ candidates = <<>>
    /\ CurveIdle
    /\ ValidatorIdle
    /\ CodecIdle
    /\ EngineIdle
    /\ ToolIdle

\* addFoundKey(key, source) of the hook's user
ValidateAndAddKey(k) ==
    LET apply(h) ==
            /\ testedKeys' = h.testedKeys
            /\ foundKeys' = h.foundKeys
            /\ puzzleSolved' = h.puzzleSolved
            /\ shouldContinue' = h.shouldContinue
            /\ keyLog' = h.keyLog
    IN  /\ Len(keyLog) < MaxKeyCalls
        /\ apply(validateAndAddKey(Keys, k, "user"))
        /\ UNCHANGED <<isRunning, continuousMode, loops, lengthSeen, streamVars,
                       candidates, curveVars, validatorVars, codecVars, engineVars,
                       toolVars>>

\* the effect with dependency foundKeys.length, run after a render in which
\* the length has changed
CleanUpEffect ==
    /\ Len(foundKeys) # lengthSeen
    /\ lengthSeen' = Len(foundKeys)
    /\ testedKeys' = IF Len(testedKeys) > MAX_TESTED_KEYS
                     THEN sliceLast(testedKeys, MAX_TESTED_KEYS \div 2)
                     ELSE testedKeys
    /\ UNCHANGED <<foundKeys, keyLog, loopVars, streamVars,
                   candidates, curveVars, validatorVars, codecVars, engineVars,
                   toolVars>>

ClearFoundKeys ==
    /\ Len(keyLog) < MaxKeyCalls
    /\ foundKeys' = <<>>
    /\ testedKeys' = <<>>
    /\ keyLog' = Append(keyLog, Cleared)
    /\ UNCHANGED <<lengthSeen, loopVars, streamVars,
                   candidates, curveVars, validatorVars, codecVars, engineVars,
                   toolVars>>

ClearTestedKeys ==
    /\ Len(keyLog) < MaxKeyCalls
    /\ testedKeys' = <<>>
    /\ keyLog' = Append(keyLog, Cleared)
    /\ UNCHANGED <<foundKeys, lengthSeen, loopVars, streamVars,
                   candidates, curveVars, validatorVars, codecVars, engineVars,
                   toolVars>>

NextKeys ==
    \/ \E k \in HookKeys : ValidateAndAddKey(k)
    \/ CleanUpEffect
    \/ ClearFoundKeys
    \/ ClearTestedKeys

SpecKeys == InitKeys /\ [][NextKeys]_vars

\* the events of the history since the last clear
RECURSIVE sinceClear(_)
sinceClear(events) ==
    IF events = <<>> THEN <<>>
    ELSE IF events[Len(events)].type = "clear" THEN <<>>
    ELSE Append(sinceClear(SubSeq(events, 1, Len(events) - 1)), events[Len(events)])

ValidatedBefore(k) ==
    \E i \in DOMAIN sinceClear(keyLog) :
        sinceClear(keyLog)[i].key = k /\ sinceClear(keyLog)[i].validated

\* a call of validateAndAddKey with key k is the step taken
IsCall(k) ==
    /\ Len(keyLog') = Len(keyLog) + 1
    /\ keyLog'[Len(keyLog')].type = "call"
    /\ keyLog'[Len(keyLog')].key = k

\* a repeated call with a key of the set returns null and changes neither
\* the found keys nor the solved flag
RepeatedCallChangesNothing(k) ==
    (IsCall(k) /\ has(testedKeys, k)) =>
        /\ keyLog'[Len(keyLog')].returned = <<>>
        /\ ~ keyLog'[Len(keyLog')].validated
        /\ foundKeys' = foundKeys
        /\ puzzleSolved' = puzzleSolved

\* a key that is validated has not been validated since the last clear
ValidatedOnce(k) ==
    (IsCall(k) /\ keyLog'[Len(keyLog')].validated) => ~ ValidatedBefore(k)

C29_RepeatedCallChangesNothing ==
    [][ \A k \in HookKeys : RepeatedCallChangesNothing(k) ]_vars

\* C29: between two clears of the tested-keys set validateAndAddKey
\* validates each distinct key at most once, and a repeated call with a
\* key of the set returns null and changes neither the found keys nor the
\* solved flag, the clean-up of a set larger than MAX_TESTED_KEYS included.
C29_DuplicatesSuppressed ==
    [][ \A k \in HookKeys : ValidatedOnce(k) /\ RepeatedCallChangesNothing(k) ]_vars

-----------------------------------------------------------------------------
(* The hook: streamAgentResponse and executeToolsViaAPI.                   *)
(*                                                                         *)
(* An activation of streamAgentResponse is a record: the await it is at    *)
(* ("post": the request to the model, "put": the tool request inside       *)
(* executeToolsViaAPI, "json": the body of the tool response) or           *)
(* "returned", the length of its toolResults argument, the number of       *)
(* recursive continuations that led to it, the number of tool calls of the *)
(* response at hand, and its latest call of executeToolsViaAPI.  The       *)
(* recursive call is the last thing its caller does, so caller and callee  *)
(* are one record.                                                         *)

\* if (toolIterations < 10), scaled
TOOL_ITERATIONS == 2

MaxStreams == 2

\* most continuations, of all activations together, after which the model
\* is still answered
MaxContinuations == 3
MaxToolCalls == 1

\* longest history of validateAndAddKey calls with streams at work
MaxStreamKeyCalls == 3

\* keys a tool result or a model response carries
StreamKeys == { <<>>, << <<"0","1">> >> }

Stream ==
    [ pc |-> "post", toolResults |-> 0, continuations |-> 0, toolCalls |-> 0,
      execution |-> <<>> ]

\* a call of executeToolsViaAPI: whether it passed the lock, whether it
\* sent the request, how many keys it handed to validateAndAddKey, how it
\* left and how many results it returned
Execution(entered, sent, exit) ==
    [ entered |-> entered, sent |-> sent, validated |-> 0, exit |-> exit, results |-> 0 ]

\* executeToolsViaAPI without the test of the lock
executeToolsViaAPI_NoTest(lock, s) ==
    [ lock |-> TRUE,
      stream |-> [ s EXCEPT !.pc = "put", !.execution = << Execution(TRUE, TRUE, "pending") >> ] ]

\* executeToolsViaAPI up to its first await: the lock after it and the
\* activation, which has the (empty) result list when the lock was taken
executeToolsViaAPI(lock, s) ==
    IF lock
    THEN [ lock |-> lock,
           stream |-> [ s EXCEPT !.execution = << Execution(FALSE, FALSE, "skipped") >> ] ]
    ELSE [ lock |-> TRUE,
           stream |-> [ s EXCEPT !.pc = "put",
                                 !.execution = << Execution(TRUE, TRUE, "pending") >> ] ]

\* the end of executeToolsViaAPI: return or catch, then finally
leave(s, exit, validated, count) ==
    [ lock |-> FALSE,
      stream |-> [ s EXCEPT !.execution =
                       << [ @[1] EXCEPT !.exit = exit, !.validated = validated,
                                        !.results = count ] >> ] ]

\* streamAgentResponse after executeToolsViaAPI has returned results:
\* continue with a recursive call, which runs up to its request to the
\* model, or go on to the end
continue(s, count) ==
    IF s.toolResults + count < TOOL_ITERATIONS
    THEN [ s EXCEPT !.pc = "post", !.toolResults = @ + count,
                    !.continuations = @ + 1, !.toolCalls = 0 ]
    ELSE [ s EXCEPT !.pc = "returned" ]

\* for (const key of keys) validateAndAddKey(key, source)
RECURSIVE validateAll(_, _, _)
validateAll(h, keys, source) ==
    IF keys = <<>> THEN h
    ELSE validateAll(validateAndAddKey(h, keys[1], source), Tail(keys), source)

\* if (typeof key === "string" && key.length >= 64)
longEnough(keys) == SelectSeq(keys, LAMBDA k : Len(k) >= HEX_KEY_LEN)

setKeys(h) ==
    /\ testedKeys' = h.testedKeys
    /\ foundKeys' = h.foundKeys
    /\ puzzleSolved' = h.puzzleSolved
    /\ shouldContinue' = h.shouldContinue
    /\ keyLog' = h.keyLog

InitStreams == InitKeys

\* the continuations of all activations together
RECURSIVE continuationsOf(_)
continuationsOf(ss) ==
    IF ss = <<>> THEN 0 ELSE ss[1].continuations + continuationsOf(Tail(ss))

Continuations == continuationsOf(streams)

\* streamAgentResponse(agent, prompt): a call without tool results
StreamAgentResponse ==
    /\ Len(streams) < MaxStreams
    /\ streams' = Append(streams, Stream)
    /\ UNCHANGED <<toolLock, loopVars, keyVars, candidates, curveVars,
                   validatorVars, codecVars, engineVars, toolVars>>

\* the request to the model fails or is aborted: catch, return null
ModelFails(i) ==
    /\ i \in DOMAIN streams
    /\ streams[i].pc = "post"
    /\ streams' = [ streams EXCEPT ![i].pc = "returned" ]
    /\ UNCHANGED <<toolLock, loopVars, keyVars, candidates, curveVars,
                   validatorVars, codecVars, engineVars, toolVars>>

\* the response of the model has been read: n tool calls in it, and keys
\* for the scan at the end
ModelResponds(i, n, keys) ==
    LET scan(s) ==
            /\ streams' = [ streams EXCEPT ![i] = [ s EXCEPT !.pc = "returned" ] ]
            /\ setKeys(validateAll(Keys, keys, "agent"))
        tools(r) ==
            /\ toolLock' = r.lock
            /\ IF r.stream.pc = "put"
               THEN streams' = [ streams EXCEPT ![i] = r.stream ] /\ setKeys(Keys)
               ELSE IF continue(r.stream, 0).pc = "returned"
               THEN scan(r.stream)
               ELSE streams' = [ streams EXCEPT ![i] = continue(r.stream, 0) ]
                    /\ setKeys(Keys)
    IN  /\ i \in DOMAIN streams
        /\ streams[i].pc = "post"
        /\ Continuations < MaxContinuations
        /\ Len(keyLog) + Len(keys) <= MaxStreamKeyCalls
        /\ IF n > 0
           THEN tools(executeToolsViaAPI(toolLock, [ streams[i] EXCEPT !.toolCalls = n ]))
           ELSE scan(streams[i]) /\ toolLock' = toolLock
        /\ UNCHANGED <<isRunning, continuousMode, loops, lengthSeen, candidates,
                       curveVars, validatorVars, codecVars, engineVars, toolVars>>

\* the tool request is answered with a status that is ok or one that is
\* not, or it is rejected
PutResponds(i, answer) ==
    LET failed(r) ==
            /\ toolLock' = r.lock
            /\ streams' = [ streams EXCEPT ![i] = continue(r.stream, 0) ]
    IN  /\ i \in DOMAIN streams
        /\ streams[i].pc = "put"
        /\ IF answer = "ok"
           THEN streams' = [ streams EXCEPT ![i].pc = "json" ] /\ toolLock' = toolLock
           ELSE IF answer = "not ok"
           THEN failed(leave(streams[i], "HTTP error", 0, 0))
           ELSE failed(leave(streams[i], "thrown", 0, 0))
        /\ UNCHANGED <<loopVars, keyVars, candidates, curveVars,
                       validatorVars, codecVars, engineVars, toolVars>>

\* the body of the tool response is parsed: one result for each tool
\* call, the first with the keys found, which executeToolsViaAPI validates
\* and streamAgentResponse validates again; or the body is no JSON
JsonResolves(i, isJson, keys) ==
    LET n == streams[i].toolCalls
        after(r, s) ==
            /\ toolLock' = r.lock
            /\ streams' = [ streams EXCEPT ![i] = s ]
        returned(r) ==
            IF continue(r.stream, n).pc = "returned"
            THEN /\ after(r, continue(r.stream, n))
                 /\ setKeys(validateAll(
                        validateAll(validateAll(Keys, longEnough(keys), "tool"),
                                    longEnough(keys), "agent/tool"),
                        keys, "agent"))
            ELSE /\ after(r, continue(r.stream, n))
                 /\ setKeys(validateAll(validateAll(Keys, longEnough(keys), "tool"),
                                        longEnough(keys), "agent/tool"))
        thrown(r) ==
            /\ after(r, continue(r.stream, 0))
            /\ setKeys(Keys)
    IN  /\ i \in DOMAIN streams
        /\ streams[i].pc = "json"
        /\ Len(keyLog) + 3 * Len(keys) <= MaxStreamKeyCalls
        /\ IF isJson
           THEN returned(leave(streams[i], "success", Len(longEnough(keys)), n))
           ELSE thrown(leave(streams[i], "thrown", 0, 0))
        /\ UNCHANGED <<isRunning, continuousMode, loops, lengthSeen, candidates,
                       curveVars, validatorVars, codecVars, engineVars, toolVars>>

NextStreams ==
    \/ StreamAgentResponse
    \/ \E i \in 1 .. MaxStreams : ModelFails(i)
    \/ \E i \in 1 .. MaxStreams, n \in 0 .. MaxToolCalls, keys \in StreamKeys :
           ModelResponds(i, n, keys)
    \/ \E i \in 1 .. MaxStreams, answer \in { "ok", "not ok", "rejected" } :
           PutResponds(i, answer)
    \/ \E i \in 1 .. MaxStreams, isJson \in BOOLEAN, keys \in StreamKeys :
           JsonResolves(i, isJson, keys)
    \/ CleanUpEffect

SpecStreams == InitStreams /\ [][NextStreams]_vars

\* C27: the tool-continuation loop of streamAgentResponse ends: whatever
\* the responses of the model contain, and whether the tools return
\* results, fail or are skipped for the lock, an activation is continued at
\* most TOOL_ITERATIONS times.
C27_ContinuationsBounded ==
    \A i \in DOMAIN streams : streams[i].continuations <= TOOL_ITERATIONS

\* when every tool execution so far returned a result for each call, the
\* continuations are bounded
C27_BoundedWhenToolsReturn ==
    \A i \in DOMAIN streams :
        streams[i].toolResults >= streams[i].continuations
            => streams[i].continuations <= TOOL_ITERATIONS

\* the activations past the lock of executeToolsViaAPI
PastLock == { i \in DOMAIN streams : streams[i].pc \in { "put", "json" } }

\* C28: at most one call of executeToolsViaAPI is past the lock; a call
\* made while the lock is held returns no results and has neither sent the
\* request nor validated a key; and the lock is released on every way out
\* (success, HTTP error, exception), so that it is held exactly while a
\* call is past it.
C28_ToolsMutuallyExclusive ==
    /\ Cardinality(PastLock) <= 1
    /\ toolLock <=> PastLock # {}
    /\ \A i \in DOMAIN streams :
         (streams[i].execution # <<>> /\ ~ streams[i].execution[1].entered) =>
             /\ streams[i].execution[1].exit = "skipped"
             /\ ~ streams[i].execution[1].sent
             /\ streams[i].execution[1].validated = 0
             /\ streams[i].execution[1].results = 0
    /\ \A i \in DOMAIN streams :
         (streams[i].execution # <<>> /\ streams[i].execution[1].entered) =>
             IF i \in PastLock
             THEN streams[i].execution[1].exit = "pending"
             ELSE streams[i].execution[1].exit \in { "success", "HTTP error", "thrown" }

\* a call has been skipped while another was past the lock
C28_Witness ==
    \E i, j \in DOMAIN streams :
        /\ i \in PastLock
        /\ streams[j].execution # <<>>
        /\ streams[j].execution[1].exit = "skipped"

-----------------------------------------------------------------------------
(* The hook: runAutonomousLoop and stopSystem.                             *)
(*                                                                         *)
(* An activation of runAutonomousLoop is a record: the await it is at      *)
(* ("stream": the call of streamAgentResponse, "sleep": the pause at the   *)
(* end of an iteration) or "ended", and the puzzleSolved and               *)
(* continuousMode of the render whose callback it is.  The user's calls    *)
(* go to the callbacks of the latest render.  The call of                  *)
(* streamAgentResponse is taken as one await, which validates the keys it  *)
(* has come across when it returns.                                        *)

MaxLoops == 2

\* keys an iteration generates, or a response carries
LoopKeys == StreamKeys \cup { << <<"2","a">> >> }

Loop(pc) == [ pc |-> pc, puzzleSolved |-> puzzleSolved, continuousMode |-> continuousMode ]

InitLoop == InitKeys

\* while (shouldContinueRef.current && !puzzleSolved) { ... }, from the test
\* to the next await or to the end of the function: activation l, with the
\* flag as it is at the test, goes into an iteration, which validates the
\* keys it generates and calls streamAgentResponse, or ends
while(l, h, keys) ==
    IF h.shouldContinue /\ ~ l.puzzleSolved
    THEN [ loop |-> [ l EXCEPT !.pc = "stream" ],
           keys |-> validateAll(h, keys, "Iteration Generator"),
           isRunning |-> TRUE ]
    ELSE [ loop |-> [ l EXCEPT !.pc = "ended" ], keys |-> h, isRunning |-> FALSE ]

\* runAutonomousLoop(), up to its first await
RunAutonomousLoop(keys) ==
    LET started(r) ==
            /\ loops' = Append(loops, r.loop)
            /\ isRunning' = r.isRunning
            /\ setKeys(r.keys)
    IN  /\ Len(loops) < MaxLoops
        /\ Len(keyLog) + Len(keys) <= MaxKeyCalls
        /\ IF isRunning
           THEN UNCHANGED <<loops, isRunning, shouldContinue, puzzleSolved, testedKeys,
                            foundKeys, keyLog>>
           ELSE started(while(Loop("stream"), [ Keys EXCEPT !.shouldContinue = TRUE ], keys))
        /\ UNCHANGED <<continuousMode, lengthSeen, streamVars, candidates, curveVars,
                       validatorVars, codecVars, engineVars, toolVars>>

\* streamAgentResponse returns to activation l
StreamReturns(l, keys) ==
    /\ l \in DOMAIN loops
    /\ loops[l].pc = "stream"
    /\ Len(keyLog) + Len(keys) <= MaxKeyCalls
    /\ loops' = [ loops EXCEPT ![l].pc = "sleep" ]
    /\ setKeys(validateAll(Keys, keys, "agent"))
    /\ UNCHANGED <<isRunning, continuousMode, lengthSeen, streamVars, candidates,
                   curveVars, validatorVars, codecVars, engineVars, toolVars>>

\* the pause of activation l is over: the end of the iteration and the
\* next test of the loop
TimerFires(l, keys) ==
    LET resumed(r) ==
            /\ loops' = [ loops EXCEPT ![l] = r.loop ]
            /\ isRunning' = IF r.isRunning THEN isRunning ELSE FALSE
            /\ setKeys(r.keys)
    IN  /\ l \in DOMAIN loops
        /\ loops[l].pc = "sleep"
        /\ Len(keyLog) + Len(keys) <= MaxKeyCalls
        /\ resumed(while(loops[l],
                         [ Keys EXCEPT !.shouldContinue =
                               IF loops[l].continuousMode THEN @ ELSE FALSE ],
                         keys))
        /\ UNCHANGED <<continuousMode, lengthSeen, streamVars, candidates, curveVars,
                       validatorVars, codecVars, engineVars, toolVars>>

StopSystem ==
    /\ shouldContinue' = FALSE
    /\ isRunning' = FALSE
    /\ UNCHANGED <<continuousMode, puzzleSolved, loops, keyVars, streamVars, candidates,
                   curveVars, validatorVars, codecVars, engineVars, toolVars>>

SetContinuousMode(b) ==
    /\ continuousMode' = b
    /\ UNCHANGED <<isRunning, shouldContinue, puzzleSolved, loops, keyVars, streamVars,
                   candidates, curveVars, validatorVars, codecVars, engineVars, toolVars>>

NextLoop ==
    \/ \E keys \in LoopKeys : RunAutonomousLoop(keys)
    \/ \E l \in 1 .. MaxLoops, keys \in LoopKeys : StreamReturns(l, keys)
    \/ \E l \in 1 .. MaxLoops, keys \in LoopKeys : TimerFires(l, keys)
    \/ StopSystem
    \/ \E b \in BOOLEAN : SetContinuousMode(b)
    \/ CleanUpEffect

SpecLoop == InitLoop /\ [][NextLoop]_vars

\* the activations of the loop that have not ended
ActiveLoops == { l \in DOMAIN loops : loops[l].pc # "ended" }

\* C26: at most one autonomous loop is active at any time: in every
\* interleaving of starts and stops with the awaits of the loop, a second
\* start has no effect or begins after the body of the previous loop has
\* ended.
C26_OneLoopAtATime == Cardinality(ActiveLoops) <= 1

\* without a stop in between, a second start has no effect
C26_StartWhileRunningIgnored ==
    [][ (isRunning /\ ActiveLoops # {}) => (Len(loops') = Len(loops)) ]_vars

-----------------------------------------------------------------------------
(* xorHex on its own, next to a run of the XOR chains.                     *)

XorDigits == { "0", "a", "F" }

\* hexadecimal strings of even length: every one of two digits, some of
\* four
XorStrings ==
    { << a, b >> : a \in XorDigits, b \in XorDigits }
    \cup { << "0", "0", "0", "1" >>, << "F", "f", "1", "0" >> }

XorTriples ==
    { t \in XorStrings \X XorStrings \X XorStrings :
          Len(t[1]) = Len(t[2]) /\ Len(t[2]) = Len(t[3]) }

InitXor ==
    /\ operands \in XorTriples
    /\ outcome = <<>>
    /\ results = <<>>
    /\ iteration = 0
    /\ shouldStop = FALSE
    /\ onProgress = FALSE
    /\ log = <<>>
    /\ gens = << Generator("generateXORChains") >>
    /\ stats = <<>>
    /\ candidates = <<>>
    /\ HookIdle
    /\ ValidatorIdle
    /\ CodecIdle
    /\ ToolIdle

\* xorHex of the first two operands in both orders, and of the three
\* bracketed to the left and to the right
XorHex ==
    /\ outcome = <<>>
    /\ outcome' = << [ ab |-> xorHex(operands[1], operands[2]),
                       ba |-> xorHex(operands[2], operands[1]),
                       left |-> xorHex(xorHex(operands[1], operands[2]), operands[3]),
                       right |-> xorHex(operands[1], xorHex(operands[2], operands[3])) ] >>
    /\ UNCHANGED <<operands, candidates, validatorVars, codecVars, engineVars, toolVars,
                   hookVars>>

NextXor == XorHex \/ Resume(1)

SpecXor == InitXor /\ [][NextXor]_vars

\* the keys of the results of one method
KeysOf(method) ==
    { results[i].key : i \in { j \in DOMAIN results : results[j].method = method } }

\* the permutations the results of one method were computed from
InputsOf(method) ==
    { results[i].inputs : i \in { j \in DOMAIN results : results[j].method = method } }

\* C30: xorHex is commutative and associative on hexadecimal strings of
\* one even length, and the results of the permutation loop of
\* generateXORChains carry one key whichever permutation they come from:
\* one raw XOR key and one SHA-256 key in all.
C30_XorOrderIrrelevant ==
    /\ outcome # <<>> =>
         (outcome[1].ab = outcome[1].ba /\ outcome[1].left = outcome[1].right)
    /\ Cardinality(KeysOf("XOR-Chain-KnownHashes")) <= 1
    /\ Cardinality(KeysOf("XOR-Chain-KnownHashes-SHA256")) <= 1
    /\ gens[1].done =>
         /\ Cardinality(KeysOf("XOR-Chain-KnownHashes")) = 1
         /\ Cardinality(KeysOf("XOR-Chain-KnownHashes-SHA256")) = 1

\* the generator has run to its end, with results of several
\* permutations, and xorHex has been applied to three different strings
C30_Witness ==
    /\ gens[1].done
    /\ Cardinality(InputsOf("XOR-Chain-KnownHashes")) >= 3
    /\ outcome # <<>>
    /\ Cardinality({ operands[1], operands[2], operands[3] }) = 3
    /\ outcome[1].ab # operands[1]

=============================================================================
